---------------------------- MODULE Spec2Model ----------------------------
(***************************************************************************)
(* Client-side live-queue synchronisation of the clinic token dashboard.   *)
(*                                                                         *)
(* The repository holds two generations of the queue screen and of the     *)
(* push-channel hook:                                                      *)
(*   - the queue page (src/unnamed/part_001) keeps one DoctorQueueState    *)
(*     per doctor in `queues` and is fed by the hook of                    *)
(*     src/src/hooks/useEventSource.ts;                                    *)
(*   - the queue component (src/src/components/QueueDisplay.tsx) keeps     *)
(*     `waitingQueues` and `activeTokens` and handles token_called events. *)
(* Each generation has its own variables, actions and specification.       *)
(***************************************************************************)
EXTENDS Integers, Sequences, FiniteSets, TLC

(***************************************************************************)
(* Bounds of the model.                                                    *)
(***************************************************************************)
\* payload timestamps range over 0..MaxTime
MaxTime == 1
\* REST queue fetches that may be in flight at once
MaxFetches == 1

(***************************************************************************)
(* Values.                                                                 *)
(***************************************************************************)
\* JavaScript null of a string state (useState<string | null>(null))
Null == "null"

\* !x for a string-or-null value
Falsy(x) == x \in {Null, ""}

\* timestamp: null of a DoctorQueueState that no update has written yet
NoTime == -1

\* active: null / previous: null / nextToken: null
NoToken == [tokenId |-> "none", priority |-> "none"]

\* props.doctors, in the order the parent passes them
DoctorList == <<"d1", "d2">>

Doctors == {DoctorList[i] : i \in 1..Len(DoctorList)}

Departments == {"A", "B"}

\* Doctor.departmentId
DeptOf(d) == IF d = "d1" THEN "A" ELSE "B"

TokenIds == {"t1", "t2", "t3"}

\* the tokens the server lists in each doctor's queue (a token belongs to one
\* doctor's queue): doctor d1 has two patients and d2 none in the engine
\* specification, each doctor has one patient in the selection specification
EngineTokens == [d \in Doctors |-> IF d = "d1" THEN {"t1", "t2"} ELSE {}]

SelectionTokens == [d \in Doctors |-> IF d = "d1" THEN {"t1"} ELSE {"t3"}]

Statuses == {"CHECKED_IN", "IN_PROGRESS", "COMPLETED", "CANCELLED"}

Priorities == {"NORMAL", "HIGH", "EMERGENCY"}

\* the priority the server reports for each token in the queue specifications
PriorityOfId == [t \in TokenIds |-> IF t = "t1" THEN "NORMAL" ELSE IF t = "t2" THEN "HIGH" ELSE "EMERGENCY"]

(***************************************************************************)
(* Sequence helpers (Array.prototype.filter / find).  A QueueItem kept in  *)
(* the page state is modelled by its tokenId and priority: the page never  *)
(* reads the status of an item again once it has filed it under waiting,   *)
(* active or previous.                                                     *)
(***************************************************************************)
Item(t) == [tokenId |-> t.tokenId, priority |-> t.priority]

RECURSIVE FilterStatus(_, _)
FilterStatus(q, s) == IF q = <<>> THEN <<>> ELSE IF Head(q).status = s THEN <<Item(Head(q))>> \o FilterStatus(Tail(q), s) ELSE FilterStatus(Tail(q), s)

FindStatus(q, s) == IF FilterStatus(q, s) = <<>> THEN NoToken ELSE Head(FilterStatus(q, s))

WithoutToken(q, id) == SelectSeq(q, LAMBDA t : t.tokenId # id)

HasToken(q, id) == \E i \in 1..Len(q) : q[i].tokenId = id

\* all sequences without repetition over the set S
RECURSIVE Perms(_)
Perms(S) == IF S = {} THEN {<<>>} ELSE UNION {{<<x>> \o p : p \in Perms(S \ {x})} : x \in S}

DistinctSeqs(S) == UNION {Perms(T) : T \in SUBSET S}

MinOf(S) == CHOOSE x \in S : \A y \in S : x <= y

(***************************************************************************)
(* What a payload says, read off the payload itself: the reference the     *)
(* history variable records for each delivery.                             *)
(***************************************************************************)
\* the waiting list a payload carries: its CHECKED_IN items in payload order
CheckedInOf(q) == [i \in 1..Len(SelectSeq(q, LAMBDA t : t.status = "CHECKED_IN")) |-> Item(SelectSeq(q, LAMBDA t : t.status = "CHECKED_IN")[i])]

\* the first item of a payload with the given status
FirstWith(q, s) == IF \E i \in 1..Len(q) : q[i].status = s THEN Item(q[MinOf({i \in 1..Len(q) : q[i].status = s})]) ELSE NoToken

\* the doctor state a fresh snapshot payload stands for
FreshState(p) == [departmentId |-> p.departmentId, doctorId |-> p.doctorId, waiting |-> CheckedInOf(p.queue), active |-> FirstWith(p.queue, "IN_PROGRESS"), previous |-> FirstWith(p.queue, "COMPLETED"), totalPatients |-> p.totalPatients, timestamp |-> p.timestamp]

(***************************************************************************)
(* Server payloads (QueueUpdateData): what a queue_update push or a        *)
(* GET /queue response carries.  The server lists every token once and     *)
(* serves at most one token per doctor at a time.                          *)
(***************************************************************************)
QueueItemsOf(ids, prio, sts) == {[i \in 1..Len(ids) |-> [tokenId |-> ids[i], status |-> st[i], priority |-> prio[ids[i]]]] : st \in [1..Len(ids) -> sts]}

AtMostOneInProgress(q) == Len(FilterStatus(q, "IN_PROGRESS")) <= 1

QueuesOver(toks, sts) == {q \in UNION {QueueItemsOf(ids, PriorityOfId, sts) : ids \in DistinctSeqs(toks)} : AtMostOneInProgress(q)}

PayloadsOver(d, toks, sts) == {[doctorId |-> d, departmentId |-> DeptOf(d), queue |-> q, totalPatients |-> Len(q), timestamp |-> ts] : q \in QueuesOver(toks, sts), ts \in 0..MaxTime}

\* the engine specification lists waiting, served and completed tokens; a
\* cancelled token is filed nowhere by the page, as the selection
\* specification shows with one token per doctor
EngineStatuses == {"CHECKED_IN", "IN_PROGRESS", "COMPLETED"}

EnginePayloads == [d \in Doctors |-> PayloadsOver(d, EngineTokens[d], EngineStatuses)]

SelectionPayloads == [d \in Doctors |-> PayloadsOver(d, SelectionTokens[d], Statuses)]

(***************************************************************************)
(* State of the queue page.                                                *)
(***************************************************************************)
VARIABLES
    queues,                \* QueuesState: the DoctorQueueState entries in key insertion order
    selectedDepartmentId,  \* useState<string | null>(null)
    selectedDoctorId,      \* useState<string | null>(null)
    isUpdating,            \* useState(false)
    connectionError,       \* TRUE when the connection-error banner text is set
    command,               \* the status-update request awaited by callNextToken / completeCurrentToken
    fetches,               \* GET /queue requests in flight, each with the selection its closure captured
    isInitialConnect,      \* the hook's isInitialConnect ref
    lastEvent,             \* history: the delivery or failure the last step handled, with the state it should leave
    updatingPriorities,    \* the tokenIds whose updatingPriorities flag is true
    priorityRequests,      \* priority-update requests in flight
    waitingQueues,         \* queue component: QueueState[]
    activeTokens,          \* queue component: key -> {current, previous}
    lastCalledToken,       \* queue component: the token_called event stored for the effect, or NoCalled
    inReceiptOrder,        \* history: waitingQueues and activeTokens had every push been applied when it was received
    sources,               \* every EventSource the hook has created, in creation order
    eventSource,           \* the hook's eventSource ref: an index into sources, or NoSource
    reconnectAttempts,     \* the hook's reconnectAttempts ref
    reconnectTimer,        \* the hook's pending reconnect timeout and the ids its closure captured
    lastDepartmentId,      \* the hook's lastDepartmentId ref
    lastDoctorId,          \* the hook's lastDoctorId ref
    hasBothIds,            \* the hook's hasBothIds ref
    notified,              \* the last callback prop the hook invoked
    failures,              \* errors of the subscribed pair since its last open
    mounted,               \* the component that calls the hook is mounted
    apiResponse,           \* the Response that fetch resolved with in api()
    apiResult              \* what api() returned or threw for it

pageVars == <<queues, selectedDepartmentId, selectedDoctorId, isUpdating, connectionError, command, fetches, isInitialConnect, lastEvent>>

priorityVars == <<updatingPriorities, priorityRequests>>

displayVars == <<waitingQueues, activeTokens, lastCalledToken, inReceiptOrder>>

hookVars == <<sources, eventSource, reconnectAttempts, reconnectTimer, lastDepartmentId, lastDoctorId, hasBothIds, notified, failures, mounted>>

apiVars == <<apiResponse, apiResult>>

vars == <<pageVars, priorityVars, displayVars, hookVars, apiVars>>

\* what the actions of the queue page leave alone
besidePage == <<priorityVars, displayVars, hookVars, apiVars>>

\* no delivery or failure was handled by the last step
NoEvent == [kind |-> "none", origin |-> "none", doctorId |-> "none", fresh |-> FALSE, waiting |-> <<>>, active |-> NoToken, snapshot |-> <<>>]

NoCommand == [kind |-> "none", tokenId |-> "none", doctorId |-> "none", departmentId |-> "none", selDoctorId |-> "none"]

(***************************************************************************)
(* The queue map.                                                          *)
(***************************************************************************)
HasQueue(qs, d) == \E i \in 1..Len(qs) : qs[i].doctorId = d

QueueOf(qs, d) == qs[CHOOSE i \in 1..Len(qs) : qs[i].doctorId = d]

\* the state updateDoctorQueue starts from for a doctor without an entry
DefaultState(d) == [departmentId |-> "", doctorId |-> d, waiting |-> <<>>, active |-> NoToken, previous |-> NoToken, totalPatients |-> 0, timestamp |-> NoTime]

ExistingState(qs, d) == IF HasQueue(qs, d) THEN QueueOf(qs, d) ELSE DefaultState(d)

\* {...prev, [doctorId]: next}: an existing key keeps its place, a new key goes last
PutQueue(qs, d, next) == IF HasQueue(qs, d) THEN [i \in 1..Len(qs) |-> IF qs[i].doctorId = d THEN next ELSE qs[i]] ELSE Append(qs, next)

(***************************************************************************)
(* handleQueueUpdate: the update function applied to the doctor's state.   *)
(***************************************************************************)
\* a variant that files every item of the payload under waiting
QueueUpdateStateUnfiltered(prevState, data) == [prevState EXCEPT !.departmentId = data.departmentId, !.waiting = [i \in 1..Len(data.queue) |-> Item(data.queue[i])], !.active = IF FindStatus(data.queue, "IN_PROGRESS") # NoToken THEN FindStatus(data.queue, "IN_PROGRESS") ELSE prevState.active, !.totalPatients = data.totalPatients, !.timestamp = data.timestamp]

\* a variant that takes the active token from the payload alone
QueueUpdateStateDropsActive(prevState, data) == [prevState EXCEPT !.departmentId = data.departmentId, !.waiting = FilterStatus(data.queue, "CHECKED_IN"), !.active = FindStatus(data.queue, "IN_PROGRESS"), !.totalPatients = data.totalPatients, !.timestamp = data.timestamp]

QueueUpdateState(prevState, data) == [prevState EXCEPT !.departmentId = data.departmentId, !.waiting = FilterStatus(data.queue, "CHECKED_IN"), !.active = IF FindStatus(data.queue, "IN_PROGRESS") # NoToken THEN FindStatus(data.queue, "IN_PROGRESS") ELSE prevState.active, !.totalPatients = data.totalPatients, !.timestamp = data.timestamp]

updateDoctorQueueUpdate(qs, data) == PutQueue(qs, data.doctorId, QueueUpdateState(ExistingState(qs, data.doctorId), data))

(***************************************************************************)
(* fetchQueueData: the state built from one payload of the response.       *)
(***************************************************************************)
\* a variant that merges the payload into the held state as a push does
SnapshotStateMerged(p) == [departmentId |-> p.departmentId, doctorId |-> p.doctorId, waiting |-> FilterStatus(p.queue, "CHECKED_IN"), active |-> IF FindStatus(p.queue, "IN_PROGRESS") # NoToken THEN FindStatus(p.queue, "IN_PROGRESS") ELSE ExistingState(queues, p.doctorId).active, previous |-> FindStatus(p.queue, "COMPLETED"), totalPatients |-> p.totalPatients, timestamp |-> p.timestamp]

\* a variant that keeps the held previous token when the payload has none
SnapshotStateKeepsPrevious(p) == [departmentId |-> p.departmentId, doctorId |-> p.doctorId, waiting |-> FilterStatus(p.queue, "CHECKED_IN"), active |-> FindStatus(p.queue, "IN_PROGRESS"), previous |-> IF FindStatus(p.queue, "COMPLETED") # NoToken THEN FindStatus(p.queue, "COMPLETED") ELSE ExistingState(queues, p.doctorId).previous, totalPatients |-> p.totalPatients, timestamp |-> p.timestamp]

SnapshotState(p) == [departmentId |-> p.departmentId, doctorId |-> p.doctorId, waiting |-> FilterStatus(p.queue, "CHECKED_IN"), active |-> FindStatus(p.queue, "IN_PROGRESS"), previous |-> FindStatus(p.queue, "COMPLETED"), totalPatients |-> p.totalPatients, timestamp |-> p.timestamp]

\* newQueuesState of a response given as the sequence of its payloads
RECURSIVE NewQueuesState(_)
NewQueuesState(resp) == IF resp = <<>> THEN <<>> ELSE PutQueue(NewQueuesState(SubSeq(resp, 1, Len(resp) - 1)), resp[Len(resp)].doctorId, SnapshotState(resp[Len(resp)]))

(***************************************************************************)
(* View projection (the memoized selectors of the page).                   *)
(***************************************************************************)
\* doctors.find((d) => d.departmentId === dept), or Null
FirstDoctorIn(dept) == IF \E i \in 1..Len(DoctorList) : DeptOf(DoctorList[i]) = dept THEN DoctorList[CHOOSE i \in 1..Len(DoctorList) : DeptOf(DoctorList[i]) = dept /\ \A j \in 1..(i - 1) : DeptOf(DoctorList[j]) # dept] ELSE Null

\* a variant that goes on to the later rules when the selected doctor, or
\* the department's first doctor, has no entry
DisplayDoctorFallsThrough(qs, dept, doc) == IF ~Falsy(doc) /\ HasQueue(qs, doc) THEN doc ELSE IF ~Falsy(dept) /\ FirstDoctorIn(dept) # Null /\ HasQueue(qs, FirstDoctorIn(dept)) THEN FirstDoctorIn(dept) ELSE IF Len(qs) > 0 THEN qs[1].doctorId ELSE Null

\* currentDisplayQueue?.doctorId, Null when no display queue is resolved
DisplayDoctor(qs, dept, doc) == IF ~Falsy(doc) THEN (IF HasQueue(qs, doc) THEN doc ELSE Null) ELSE IF ~Falsy(dept) /\ FirstDoctorIn(dept) # Null THEN (IF HasQueue(qs, FirstDoctorIn(dept)) THEN FirstDoctorIn(dept) ELSE Null) ELSE IF Len(qs) > 0 THEN qs[1].doctorId ELSE Null

currentDisplayDoctor == DisplayDoctor(queues, selectedDepartmentId, selectedDoctorId)

waitingQueue == IF currentDisplayDoctor = Null THEN <<>> ELSE QueueOf(queues, currentDisplayDoctor).waiting

nextToken == IF waitingQueue = <<>> THEN NoToken ELSE waitingQueue[1]

\* a variant of upcomingTokens that slices from the head
upcomingTokensFromHead == SubSeq(waitingQueue, 1, IF Len(waitingQueue) < 3 THEN Len(waitingQueue) ELSE 3)

\* waiting.slice(1, 4)
upcomingTokens == SubSeq(waitingQueue, 2, IF Len(waitingQueue) < 4 THEN Len(waitingQueue) ELSE 4)

currentToken == IF currentDisplayDoctor = Null THEN NoToken ELSE QueueOf(queues, currentDisplayDoctor).active

previousToken == IF currentDisplayDoctor = Null THEN NoToken ELSE QueueOf(queues, currentDisplayDoctor).previous

\* the doctors offered by the doctor drop-down
filteredDoctors == IF Falsy(selectedDepartmentId) \/ selectedDepartmentId = "all" THEN Doctors ELSE {d \in Doctors : DeptOf(d) = selectedDepartmentId}

(***************************************************************************)
(* Optimistic transitions of the commands.                                 *)
(***************************************************************************)
\* a variant of the call-next transition that leaves previous alone
CallNextStateKeepsPrevious(prevState, token) == [prevState EXCEPT !.waiting = WithoutToken(prevState.waiting, token.tokenId), !.active = token]

CallNextState(prevState, token) == [prevState EXCEPT !.waiting = WithoutToken(prevState.waiting, token.tokenId), !.active = token, !.previous = prevState.active]

\* a variant of the complete transition that leaves previous alone
CompleteStateKeepsPrevious(prevState) == [prevState EXCEPT !.active = NoToken]

CompleteState(prevState) == [prevState EXCEPT !.active = NoToken, !.previous = prevState.active]

(***************************************************************************)
(* fetchQueueData as issued by a closure that captured (dept, doc): it     *)
(* returns early without a department and a doctor, throws (and catches)   *)
(* without a department, and otherwise sends GET /queue.                   *)
(***************************************************************************)
\* `origin` names the call site of fetchQueueData the request comes from
FetchRequest(dept, doc, origin) == [departmentId |-> dept, doctorId |-> IF Falsy(doc) THEN "" ELSE doc, origin |-> origin]

FetchIssued(fs, dept, doc, origin) == IF Falsy(dept) THEN fs ELSE fs \cup {FetchRequest(dept, doc, origin)}

\* room for the fetch this closure would send
FetchRoom(dept, doc, origin) == Falsy(dept) \/ (Cardinality(fetches) < MaxFetches /\ FetchRequest(dept, doc, origin) \notin fetches)

\* the query string of a request
Query(f) == [departmentId |-> f.departmentId, doctorId |-> f.doctorId]

\* the responses the server may give to a fetch: one payload for the doctor
\* asked for, else one payload per doctor of the department, taken at one time
DoctorsAsked(f) == SelectSeq(DoctorList, LAMBDA d : f.departmentId = "all" \/ DeptOf(d) = f.departmentId)

RECURSIVE ArrayResponses(_, _, _)
ArrayResponses(ds, ts, pf) == IF ds = <<>> THEN {<<>>} ELSE {<<p>> \o r : p \in {x \in pf[Head(ds)] : x.timestamp = ts}, r \in ArrayResponses(Tail(ds), ts, pf)}

FetchRequests == {[departmentId |-> dept, doctorId |-> doc] : dept \in Departments \cup {"all"}, doc \in Doctors \cup {""}}

ResponsesOver(pf) == [f \in FetchRequests |-> IF f.doctorId # "" THEN {<<p>> : p \in pf[f.doctorId]} ELSE UNION {ArrayResponses(DoctorsAsked(f), ts, pf) : ts \in 0..MaxTime}]

EngineResponses == ResponsesOver(EnginePayloads)

SelectionResponses == ResponsesOver(SelectionPayloads)

\* a push subscription exists only while both ids are selected
Subscribed == ~Falsy(selectedDepartmentId) /\ ~Falsy(selectedDoctorId)

(***************************************************************************)
(* Actions of the queue page.                                              *)
(***************************************************************************)
PageInit ==
    /\ queues = <<>>
    /\ selectedDepartmentId = Null
    /\ selectedDoctorId = Null
    /\ isUpdating = FALSE
    /\ connectionError = FALSE
    /\ command = NoCommand
    /\ fetches = {}
    /\ isInitialConnect = TRUE
    /\ lastEvent = NoEvent

\* a variant of the department drop-down that leaves the doctor selected
SelectDepartmentKeepsDoctor(v) ==
    /\ v # selectedDepartmentId
    /\ selectedDepartmentId' = v
    /\ UNCHANGED <<queues, selectedDoctorId, isUpdating, connectionError, command, fetches, isInitialConnect>>
    /\ lastEvent' = NoEvent
    /\ UNCHANGED besidePage

\* the department drop-down: the doctor is reset with it
SelectDepartment(v) ==
    /\ v # selectedDepartmentId
    /\ selectedDepartmentId' = v
    /\ selectedDoctorId' = ""
    /\ UNCHANGED <<queues, isUpdating, connectionError, command, fetches, isInitialConnect>>
    /\ lastEvent' = NoEvent
    /\ UNCHANGED besidePage

\* the doctor drop-down
SelectDoctor(v) ==
    /\ v \in filteredDoctors \cup {""}
    /\ v # (IF Falsy(selectedDoctorId) THEN "" ELSE selectedDoctorId)
    /\ selectedDoctorId' = v
    /\ UNCHANGED <<queues, selectedDepartmentId, isUpdating, connectionError, command, fetches, isInitialConnect>>
    /\ lastEvent' = NoEvent
    /\ UNCHANGED besidePage

\* a variant of handleQueueUpdate that holds the update back while a fetch
\* is in flight
HandleQueueUpdateBehindFetch(data) ==
    /\ Subscribed
    /\ ~isInitialConnect
    /\ data.doctorId = selectedDoctorId
    /\ connectionError' = FALSE
    /\ queues' = IF fetches = {} THEN updateDoctorQueueUpdate(queues, data) ELSE queues
    /\ UNCHANGED <<selectedDepartmentId, selectedDoctorId, isUpdating, command, fetches, isInitialConnect>>
    /\ lastEvent' = [kind |-> "queue_update", origin |-> "push", doctorId |-> data.doctorId, fresh |-> data.timestamp >= ExistingState(queues, data.doctorId).timestamp, waiting |-> CheckedInOf(data.queue), active |-> FirstWith(data.queue, "IN_PROGRESS"), snapshot |-> <<>>]
    /\ UNCHANGED besidePage

\* a queue_update push for the subscribed doctor reaches handleQueueUpdate
HandleQueueUpdate(data) ==
    /\ Subscribed
    /\ ~isInitialConnect
    /\ data.doctorId = selectedDoctorId
    /\ connectionError' = FALSE
    /\ queues' = updateDoctorQueueUpdate(queues, data)
    /\ UNCHANGED <<selectedDepartmentId, selectedDoctorId, isUpdating, command, fetches, isInitialConnect>>
    /\ lastEvent' = [kind |-> "queue_update", origin |-> "push", doctorId |-> data.doctorId, fresh |-> data.timestamp >= ExistingState(queues, data.doctorId).timestamp, waiting |-> CheckedInOf(data.queue), active |-> FirstWith(data.queue, "IN_PROGRESS"), snapshot |-> <<>>]
    /\ UNCHANGED besidePage

\* the first successful open of the subscription: handleOpen
HandleOpen ==
    /\ Subscribed
    /\ isInitialConnect
    /\ FetchRoom(selectedDepartmentId, selectedDoctorId, "open")
    /\ isInitialConnect' = FALSE
    /\ connectionError' = FALSE
    /\ fetches' = FetchIssued(fetches, selectedDepartmentId, selectedDoctorId, "open")
    /\ UNCHANGED <<queues, selectedDepartmentId, selectedDoctorId, isUpdating, command>>
    /\ lastEvent' = NoEvent
    /\ UNCHANGED besidePage

\* a transport error of the subscription: handleError
HandleError ==
    /\ Subscribed
    /\ connectionError' = TRUE
    /\ UNCHANGED <<queues, selectedDepartmentId, selectedDoctorId, isUpdating, command, fetches, isInitialConnect>>
    /\ lastEvent' = NoEvent
    /\ UNCHANGED besidePage

\* the retry button of the connection-error banner
RetryClick ==
    /\ connectionError
    /\ ~Falsy(selectedDepartmentId)
    /\ FetchRoom(selectedDepartmentId, selectedDoctorId, "retry")
    /\ fetches' = FetchIssued(fetches, selectedDepartmentId, selectedDoctorId, "retry")
    /\ UNCHANGED <<queues, selectedDepartmentId, selectedDoctorId, isUpdating, connectionError, command, isInitialConnect>>
    /\ lastEvent' = NoEvent
    /\ UNCHANGED besidePage

\* a variant of the button's `disabled` attribute that ignores isUpdating
CallNextDisabledWithoutFlag == nextToken = NoToken

\* disabled={isUpdating || !nextToken} of the "Call Next Token" button
CallNextDisabled == isUpdating \/ nextToken = NoToken

\* "Call Next Token": the optimistic write, then the request is awaited
CallNextToken ==
    /\ ~CallNextDisabled
    /\ nextToken # NoToken
    /\ currentDisplayDoctor # Null
    /\ isUpdating' = TRUE
    /\ queues' = PutQueue(queues, currentDisplayDoctor, CallNextState(ExistingState(queues, currentDisplayDoctor), nextToken))
    /\ command' = [kind |-> "IN_PROGRESS", tokenId |-> nextToken.tokenId, doctorId |-> currentDisplayDoctor, departmentId |-> selectedDepartmentId, selDoctorId |-> selectedDoctorId]
    /\ UNCHANGED <<selectedDepartmentId, selectedDoctorId, connectionError, fetches, isInitialConnect>>
    /\ lastEvent' = NoEvent
    /\ UNCHANGED besidePage

\* "Complete Current"
CompleteCurrentToken ==
    /\ ~isUpdating
    /\ currentToken # NoToken
    /\ currentDisplayDoctor # Null
    /\ isUpdating' = TRUE
    /\ queues' = PutQueue(queues, currentDisplayDoctor, CompleteState(ExistingState(queues, currentDisplayDoctor)))
    /\ command' = [kind |-> "COMPLETED", tokenId |-> currentToken.tokenId, doctorId |-> currentDisplayDoctor, departmentId |-> selectedDepartmentId, selDoctorId |-> selectedDoctorId]
    /\ UNCHANGED <<selectedDepartmentId, selectedDoctorId, connectionError, fetches, isInitialConnect>>
    /\ lastEvent' = NoEvent
    /\ UNCHANGED besidePage

\* the status-update request resolves
CommandSucceeded ==
    /\ command # NoCommand
    /\ command' = NoCommand
    /\ isUpdating' = FALSE
    /\ UNCHANGED <<queues, selectedDepartmentId, selectedDoctorId, connectionError, fetches, isInitialConnect>>
    /\ lastEvent' = NoEvent
    /\ UNCHANGED besidePage

\* the status-update request rejects: the catch block re-fetches with the
\* selection the handler's closure captured
CommandFailed ==
    /\ command # NoCommand
    /\ FetchRoom(command.departmentId, command.selDoctorId, command.kind)
    /\ fetches' = FetchIssued(fetches, command.departmentId, command.selDoctorId, command.kind)
    /\ command' = NoCommand
    /\ isUpdating' = FALSE
    /\ UNCHANGED <<queues, selectedDepartmentId, selectedDoctorId, connectionError, isInitialConnect>>
    /\ lastEvent' = [kind |-> "request_failed", origin |-> command.kind, doctorId |-> command.doctorId, fresh |-> FALSE, waiting |-> <<>>, active |-> NoToken, snapshot |-> <<>>]
    /\ UNCHANGED besidePage

\* a GET /queue response arrives: setQueues(newQueuesState)
FetchSucceeded(f, resp) ==
    /\ f \in fetches
    /\ fetches' = fetches \ {f}
    /\ queues' = NewQueuesState(resp)
    /\ UNCHANGED <<selectedDepartmentId, selectedDoctorId, isUpdating, connectionError, command, isInitialConnect>>
    /\ lastEvent' = [kind |-> "snapshot", origin |-> f.origin, doctorId |-> f.doctorId, fresh |-> TRUE, waiting |-> <<>>, active |-> NoToken, snapshot |-> [k \in 1..Len(resp) |-> FreshState(resp[k])]]
    /\ UNCHANGED besidePage

\* a GET /queue request fails: the error is logged
FetchFailed(f) ==
    /\ f \in fetches
    /\ fetches' = fetches \ {f}
    /\ UNCHANGED <<queues, selectedDepartmentId, selectedDoctorId, isUpdating, connectionError, command, isInitialConnect>>
    /\ lastEvent' = NoEvent
    /\ UNCHANGED besidePage

(***************************************************************************)
(* Priority buttons (UpdatePriorityButton) and handleUpdatePriority.       *)
(***************************************************************************)
PriorityActions == {"increase", "decrease"}

\* a variant of the `disabled` attribute that looks at the flag only
ButtonDisabledByFlagOnly(updating, tokenId, priority, action) == tokenId \in updating

\* a variant of the `disabled` attribute that looks at the priority only
ButtonDisabledByPriorityOnly(updating, tokenId, priority, action) == IF action = "decrease" THEN priority = "NORMAL" ELSE priority = "EMERGENCY"

\* the `disabled` attribute of the button for `action`
ButtonDisabled(updating, tokenId, priority, action) == tokenId \in updating \/ (IF action = "decrease" THEN priority = "NORMAL" ELSE priority = "EMERGENCY")

\* handleUpdatePriority: the requests in flight once the handler has sent its
\* own; `priority` is the priority the page showed when the handler ran
UpdatePriorityIssued(reqs, tokenId, action, priority) == reqs \cup {[tokenId |-> tokenId, action |-> action, priority |-> priority]}

\* the tokens rendered with priority buttons: nextToken and upcomingTokens
ButtonTokens == {waitingQueue[i] : i \in 1..(IF Len(waitingQueue) < 4 THEN Len(waitingQueue) ELSE 4)}

\* the queues of the priority specification: d1's patients wait at any priority
PriorityTokens == {"t1", "t2"}

PriorityQueues == UNION {{[i \in 1..Len(ids) |-> [tokenId |-> ids[i], status |-> "CHECKED_IN", priority |-> pr[i]]] : pr \in [1..Len(ids) -> Priorities]} : ids \in DistinctSeqs(PriorityTokens)}

PriorityPayloads == [d \in Doctors |-> {[doctorId |-> d, departmentId |-> DeptOf(d), queue |-> q, totalPatients |-> Len(q), timestamp |-> ts] : q \in (IF d = "d1" THEN PriorityQueues ELSE {<<>>}), ts \in 0..MaxTime}]

PriorityResponses == ResponsesOver(PriorityPayloads)

PriorityInit ==
    /\ updatingPriorities = {}
    /\ priorityRequests = {}

\* a click on an enabled priority button
ClickPriority(t, action) ==
    /\ t \in ButtonTokens
    /\ ~ButtonDisabled(updatingPriorities, t.tokenId, t.priority, action)
    /\ updatingPriorities' = updatingPriorities \cup {t.tokenId}
    /\ priorityRequests' = UpdatePriorityIssued(priorityRequests, t.tokenId, action, t.priority)
    /\ UNCHANGED <<pageVars, displayVars, hookVars, apiVars>>

\* the priority request resolves or rejects: the finally block clears the flag
PrioritySettled(r) ==
    /\ r \in priorityRequests
    /\ priorityRequests' = priorityRequests \ {r}
    /\ updatingPriorities' = updatingPriorities \ {r.tokenId}
    /\ UNCHANGED <<pageVars, displayVars, hookVars, apiVars>>

(***************************************************************************)
(* The queue component (QueueDisplay.tsx): waitingQueues and activeTokens. *)
(***************************************************************************)
\* `${departmentId}-${doctorId}`
ActiveKey(dept, doc) == <<dept, doc>>

ActiveKeys == {ActiveKey(DeptOf(d), d) : d \in Doctors}

\* prev[key] || {current: null, previous: null}
NoActive == [current |-> NoToken, previous |-> NoToken]

\* data.queue as stored: every item of the payload, whatever its status
AllItems(q) == [i \in 1..Len(q) |-> Item(q[i])]

\* Array.prototype.findIndex over a set of matching indices, NoIndex for -1
NoIndex == 0

FirstMatch(S) == IF S = {} THEN NoIndex ELSE MinOf(S)

QueueIndex(wq, dept, doc) == FirstMatch({i \in 1..Len(wq) : wq[i].departmentId = dept /\ wq[i].doctorId = doc})

\* handleQueueUpdate of the component
DisplayQueueUpdate(wq, data) == IF QueueIndex(wq, data.departmentId, data.doctorId) # NoIndex THEN [wq EXCEPT ![QueueIndex(wq, data.departmentId, data.doctorId)] = [departmentId |-> data.departmentId, doctorId |-> data.doctorId, queue |-> AllItems(data.queue)]] ELSE Append(wq, [departmentId |-> data.departmentId, doctorId |-> data.doctorId, queue |-> AllItems(data.queue)])

\* a variant that promotes the called token without looking for it in the queue
ProcessCalledTokenUnguarded(wq, at, ev) == [waitingQueues |-> [i \in 1..Len(wq) |-> IF wq[i].departmentId = ev.departmentId /\ wq[i].doctorId = ev.doctorId THEN [wq[i] EXCEPT !.queue = WithoutToken(wq[i].queue, ev.tokenId)] ELSE wq[i]], activeTokens |-> [at EXCEPT ![ActiveKey(ev.departmentId, ev.doctorId)] = [previous |-> at[ActiveKey(ev.departmentId, ev.doctorId)].current, current |-> [tokenId |-> ev.tokenId, priority |-> PriorityOfId[ev.tokenId]]]]]

\* a variant of the effect that leaves the previous token alone
ProcessCalledTokenKeepsPrevious(wq, at, ev) == IF QueueIndex(wq, ev.departmentId, ev.doctorId) # NoIndex /\ HasToken(wq[QueueIndex(wq, ev.departmentId, ev.doctorId)].queue, ev.tokenId) THEN [waitingQueues |-> [i \in 1..Len(wq) |-> IF wq[i].departmentId = ev.departmentId /\ wq[i].doctorId = ev.doctorId THEN [wq[i] EXCEPT !.queue = WithoutToken(wq[i].queue, ev.tokenId)] ELSE wq[i]], activeTokens |-> [at EXCEPT ![ActiveKey(ev.departmentId, ev.doctorId)] = [previous |-> at[ActiveKey(ev.departmentId, ev.doctorId)].previous, current |-> Head(SelectSeq(wq[QueueIndex(wq, ev.departmentId, ev.doctorId)].queue, LAMBDA t : t.tokenId = ev.tokenId))]]] ELSE [waitingQueues |-> wq, activeTokens |-> at]

\* the effect that processes lastCalledToken, as the state it leaves
ProcessCalledToken(wq, at, ev) == IF QueueIndex(wq, ev.departmentId, ev.doctorId) # NoIndex /\ HasToken(wq[QueueIndex(wq, ev.departmentId, ev.doctorId)].queue, ev.tokenId) THEN [waitingQueues |-> [i \in 1..Len(wq) |-> IF wq[i].departmentId = ev.departmentId /\ wq[i].doctorId = ev.doctorId THEN [wq[i] EXCEPT !.queue = WithoutToken(wq[i].queue, ev.tokenId)] ELSE wq[i]], activeTokens |-> [at EXCEPT ![ActiveKey(ev.departmentId, ev.doctorId)] = [previous |-> at[ActiveKey(ev.departmentId, ev.doctorId)].current, current |-> Head(SelectSeq(wq[QueueIndex(wq, ev.departmentId, ev.doctorId)].queue, LAMBDA t : t.tokenId = ev.tokenId))]]] ELSE [waitingQueues |-> wq, activeTokens |-> at]

\* currentDisplayQueueState as an index into waitingQueues
DisplayIndex(wq, dept, doc) == IF ~Falsy(doc) THEN FirstMatch({i \in 1..Len(wq) : wq[i].doctorId = doc /\ (dept = "all" \/ wq[i].departmentId = dept)}) ELSE IF ~Falsy(dept) /\ dept # "all" THEN FirstMatch({i \in 1..Len(wq) : wq[i].departmentId = dept}) ELSE IF Len(wq) > 0 THEN 1 ELSE NoIndex

currentDisplayQueueState == DisplayIndex(waitingQueues, selectedDepartmentId, selectedDoctorId)

activeTokensKey == ActiveKey(waitingQueues[currentDisplayQueueState].departmentId, waitingQueues[currentDisplayQueueState].doctorId)

DisplayNextToken == IF currentDisplayQueueState = NoIndex \/ waitingQueues[currentDisplayQueueState].queue = <<>> THEN NoToken ELSE waitingQueues[currentDisplayQueueState].queue[1]

DisplayCurrentToken == IF currentDisplayQueueState = NoIndex THEN NoToken ELSE activeTokens[activeTokensKey].current

\* fetchQueueData of the component returns early only without both ids
DisplayFetchIssued(fs, dept, doc, origin) == IF Falsy(dept) /\ Falsy(doc) THEN fs ELSE fs \cup {FetchRequest(dept, doc, origin)}

DisplayFetchRoom(dept, doc, origin) == (Falsy(dept) /\ Falsy(doc)) \/ (Cardinality(fetches) < MaxFetches /\ FetchRequest(dept, doc, origin) \notin fetches)

\* the effect that fetches when the selection changes
SelectionFetches(dept, doc) == (~Falsy(dept) /\ ~Falsy(doc)) \/ dept = "all"

TokenCalledEvents == {[departmentId |-> DeptOf(d), doctorId |-> d, tokenId |-> t] : d \in {"d1"}, t \in EngineTokens["d1"]}

\* useState<TokenCalledData | null>(null)
NoCalled == [departmentId |-> "none", doctorId |-> "none", tokenId |-> "none"]

\* the step applies its writes to waitingQueues and activeTokens at once
AppliedAtOnce ==
    /\ lastCalledToken' = lastCalledToken
    /\ inReceiptOrder' = [waitingQueues |-> waitingQueues', activeTokens |-> activeTokens']

DisplayInit ==
    /\ waitingQueues = <<>>
    /\ activeTokens = [k \in ActiveKeys |-> NoActive]
    /\ lastCalledToken = NoCalled
    /\ inReceiptOrder = [waitingQueues |-> <<>>, activeTokens |-> [k \in ActiveKeys |-> NoActive]]

DisplaySelectDepartment(v) ==
    /\ v # selectedDepartmentId
    /\ selectedDepartmentId' = v
    /\ selectedDoctorId' = ""
    /\ IF SelectionFetches(v, "") THEN DisplayFetchRoom(v, "", "select") /\ fetches' = DisplayFetchIssued(fetches, v, "", "select") ELSE fetches' = fetches
    /\ UNCHANGED <<queues, lastEvent, isUpdating, connectionError, command, isInitialConnect, priorityVars, apiVars, displayVars, hookVars>>

DisplaySelectDoctor(v) ==
    /\ v \in filteredDoctors \cup {""}
    /\ v # selectedDoctorId
    /\ selectedDoctorId' = v
    /\ IF SelectionFetches(selectedDepartmentId, v) THEN DisplayFetchRoom(selectedDepartmentId, v, "select") /\ fetches' = DisplayFetchIssued(fetches, selectedDepartmentId, v, "select") ELSE fetches' = fetches
    /\ UNCHANGED <<queues, lastEvent, selectedDepartmentId, isUpdating, connectionError, command, isInitialConnect, priorityVars, apiVars, displayVars, hookVars>>

\* the subscription of the component opens: onOpen re-fetches every time
DisplayHandleOpen ==
    /\ Subscribed
    /\ DisplayFetchRoom(selectedDepartmentId, selectedDoctorId, "open")
    /\ fetches' = DisplayFetchIssued(fetches, selectedDepartmentId, selectedDoctorId, "open")
    /\ connectionError' = FALSE
    /\ UNCHANGED <<queues, lastEvent, selectedDepartmentId, selectedDoctorId, isUpdating, command, isInitialConnect, priorityVars, apiVars, displayVars, hookVars>>

\* a queue_update push reaches the component
DisplayHandleQueueUpdate(data) ==
    /\ Subscribed
    /\ data.doctorId = selectedDoctorId
    /\ waitingQueues' = DisplayQueueUpdate(waitingQueues, data)
    /\ connectionError' = FALSE
    /\ lastCalledToken' = lastCalledToken
    /\ inReceiptOrder' = [inReceiptOrder EXCEPT !.waitingQueues = DisplayQueueUpdate(inReceiptOrder.waitingQueues, data)]
    /\ UNCHANGED <<queues, lastEvent, selectedDepartmentId, selectedDoctorId, isUpdating, command, fetches, isInitialConnect, activeTokens, priorityVars, apiVars, hookVars>>

\* a token_called push reaches the component: handleTokenCalled stores it and
\* the effect processes it and resets lastCalledToken
DisplayHandleTokenCalled(ev) ==
    /\ Subscribed
    /\ ev.doctorId = selectedDoctorId
    /\ waitingQueues' = ProcessCalledToken(waitingQueues, activeTokens, ev).waitingQueues
    /\ activeTokens' = ProcessCalledToken(waitingQueues, activeTokens, ev).activeTokens
    /\ AppliedAtOnce
    /\ UNCHANGED <<pageVars, priorityVars, apiVars, hookVars>>

\* handleTokenCalled alone: the event is stored for the effect, over
\* whatever was stored before
DisplayTokenCalledReceived(ev) ==
    /\ Subscribed
    /\ ev.doctorId = selectedDoctorId
    /\ lastCalledToken' = ev
    /\ inReceiptOrder' = ProcessCalledToken(inReceiptOrder.waitingQueues, inReceiptOrder.activeTokens, ev)
    /\ UNCHANGED <<waitingQueues, activeTokens, pageVars, priorityVars, apiVars, hookVars>>

\* the effect on [lastCalledToken, waitingQueues], run after a render that
\* saw a stored event: it processes the event and resets lastCalledToken
DisplayCalledTokenEffect ==
    /\ lastCalledToken # NoCalled
    /\ waitingQueues' = ProcessCalledToken(waitingQueues, activeTokens, lastCalledToken).waitingQueues
    /\ activeTokens' = ProcessCalledToken(waitingQueues, activeTokens, lastCalledToken).activeTokens
    /\ lastCalledToken' = NoCalled
    /\ UNCHANGED <<inReceiptOrder, pageVars, priorityVars, apiVars, hookVars>>

\* a variant of the component's optimistic call-next that leaves the
\* previous token alone
DisplayCallNextStateKeepsPrevious(wq, at, i) == [waitingQueues |-> [k \in 1..Len(wq) |-> IF wq[k].departmentId = wq[i].departmentId /\ wq[k].doctorId = wq[i].doctorId THEN [wq[k] EXCEPT !.queue = WithoutToken(wq[k].queue, wq[i].queue[1].tokenId)] ELSE wq[k]], activeTokens |-> [at EXCEPT ![ActiveKey(wq[i].departmentId, wq[i].doctorId)] = [current |-> wq[i].queue[1], previous |-> at[ActiveKey(wq[i].departmentId, wq[i].doctorId)].previous]]]

\* the optimistic writes of the component's callNextToken for the displayed
\* queue wq[i], whose head is nextToken
DisplayCallNextState(wq, at, i) == [waitingQueues |-> [k \in 1..Len(wq) |-> IF wq[k].departmentId = wq[i].departmentId /\ wq[k].doctorId = wq[i].doctorId THEN [wq[k] EXCEPT !.queue = WithoutToken(wq[k].queue, wq[i].queue[1].tokenId)] ELSE wq[k]], activeTokens |-> [at EXCEPT ![ActiveKey(wq[i].departmentId, wq[i].doctorId)] = [current |-> wq[i].queue[1], previous |-> at[ActiveKey(wq[i].departmentId, wq[i].doctorId)].current]]]

DisplayCallNextToken ==
    /\ ~isUpdating
    /\ DisplayNextToken # NoToken
    /\ isUpdating' = TRUE
    /\ activeTokens' = DisplayCallNextState(waitingQueues, activeTokens, currentDisplayQueueState).activeTokens
    /\ waitingQueues' = DisplayCallNextState(waitingQueues, activeTokens, currentDisplayQueueState).waitingQueues
    /\ AppliedAtOnce
    /\ command' = [kind |-> "IN_PROGRESS", tokenId |-> DisplayNextToken.tokenId, doctorId |-> waitingQueues[currentDisplayQueueState].doctorId, departmentId |-> selectedDepartmentId, selDoctorId |-> selectedDoctorId]
    /\ UNCHANGED <<queues, lastEvent, selectedDepartmentId, selectedDoctorId, connectionError, fetches, isInitialConnect, priorityVars, apiVars, hookVars>>

DisplayCompleteCurrentToken ==
    /\ ~isUpdating
    /\ DisplayCurrentToken # NoToken
    /\ isUpdating' = TRUE
    /\ activeTokens' = [activeTokens EXCEPT ![activeTokensKey] = [current |-> NoToken, previous |-> activeTokens[activeTokensKey].current]]
    /\ command' = [kind |-> "COMPLETED", tokenId |-> DisplayCurrentToken.tokenId, doctorId |-> waitingQueues[currentDisplayQueueState].doctorId, departmentId |-> selectedDepartmentId, selDoctorId |-> selectedDoctorId]
    /\ waitingQueues' = waitingQueues
    /\ AppliedAtOnce
    /\ UNCHANGED <<queues, lastEvent, selectedDepartmentId, selectedDoctorId, connectionError, fetches, isInitialConnect, priorityVars, apiVars, hookVars>>

\* the status-update request of the component rejects
DisplayCommandFailed ==
    /\ command # NoCommand
    /\ DisplayFetchRoom(command.departmentId, command.selDoctorId, command.kind)
    /\ fetches' = DisplayFetchIssued(fetches, command.departmentId, command.selDoctorId, command.kind)
    /\ command' = NoCommand
    /\ isUpdating' = FALSE
    /\ connectionError' = TRUE
    /\ UNCHANGED <<queues, lastEvent, selectedDepartmentId, selectedDoctorId, isInitialConnect, priorityVars, apiVars, displayVars, hookVars>>

\* a GET /queue response reaches the component
DisplayFetchSucceeded(f, resp) ==
    /\ f \in fetches
    /\ fetches' = fetches \ {f}
    /\ waitingQueues' = [i \in 1..Len(resp) |-> [departmentId |-> resp[i].departmentId, doctorId |-> resp[i].doctorId, queue |-> AllItems(resp[i].queue)]]
    /\ activeTokens' = [k \in ActiveKeys |-> IF \E i \in 1..Len(resp) : k = ActiveKey(resp[i].departmentId, resp[i].doctorId) THEN NoActive ELSE activeTokens[k]]
    /\ AppliedAtOnce
    /\ UNCHANGED <<queues, lastEvent, selectedDepartmentId, selectedDoctorId, isUpdating, connectionError, command, isInitialConnect, priorityVars, apiVars, hookVars>>

\* a GET /queue request of the component fails: setError(message)
DisplayFetchFailed(f) ==
    /\ f \in fetches
    /\ fetches' = fetches \ {f}
    /\ connectionError' = TRUE
    /\ UNCHANGED <<queues, lastEvent, selectedDepartmentId, selectedDoctorId, isUpdating, command, isInitialConnect, priorityVars, apiVars, displayVars, hookVars>>

(***************************************************************************)
(* The push-channel hook (useEventSource.ts).  An EventSource is a record  *)
(* of the ids of its URL and its readyState; the refs of the hook are      *)
(* gathered in a record so that cleanup, connectSSE and the main effect    *)
(* compose as they do in the code.                                         *)
(***************************************************************************)
\* eventSource.current === null
NoSource == 0

\* created EventSource objects kept in the model
MaxSources == 5

\* reconnectAttempts.current < 5
MaxReconnectAttempts == 5

\* reconnectOnClose as the page passes it
reconnectOnClose == TRUE

\* Math.min(1000 * Math.pow(2, attempt), 10000)
BaseDelay(attempt) == IF 1000 * (2 ^ attempt) < 10000 THEN 1000 * (2 ^ attempt) ELSE 10000

NoTimer == [pending |-> FALSE, departmentId |-> "none", doctorId |-> "none", baseDelay |-> 0]

hook == [sources |-> sources, eventSource |-> eventSource, reconnectAttempts |-> reconnectAttempts, reconnectTimer |-> reconnectTimer, lastDepartmentId |-> lastDepartmentId, lastDoctorId |-> lastDoctorId, hasBothIds |-> hasBothIds]

LiveSources(srcs) == {i \in 1..Len(srcs) : srcs[i].readyState # "CLOSED"}

\* a variant of cleanup that drops the reference without closing the source
cleanupSourcesLeaks(srcs, es) == srcs

\* eventSource.current.close() of cleanup
cleanupSources(srcs, es) == IF es = NoSource THEN srcs ELSE [srcs EXCEPT ![es].readyState = "CLOSED"]

\* a variant of cleanup that leaves the reconnect timer pending
cleanupKeepsTimer(h) == [h EXCEPT !.sources = cleanupSources(h.sources, h.eventSource), !.eventSource = NoSource]

cleanup(h) == [h EXCEPT !.sources = cleanupSources(h.sources, h.eventSource), !.eventSource = NoSource, !.reconnectTimer = NoTimer]

\* connectSSE of a closure that captured (dept, doc)
connectSSE(h, dept, doc) == IF Falsy(dept) \/ Falsy(doc) THEN h ELSE [cleanup(h) EXCEPT !.sources = Append(cleanup(h).sources, [departmentId |-> dept, doctorId |-> doc, readyState |-> "CONNECTING"]), !.eventSource = Len(h.sources) + 1, !.reconnectAttempts = 0]

\* the cleanup function the main effect returned, run before the next effect
effectCleanup(h) == IF ~reconnectOnClose \/ ~h.hasBothIds THEN cleanup(h) ELSE h

\* a variant of the main effect that keeps the source when an id goes missing
mainEffectKeepsSource(h, dept, doc) == IF (~Falsy(dept) /\ ~Falsy(doc)) /\ (dept # h.lastDepartmentId \/ doc # h.lastDoctorId \/ ~h.hasBothIds) THEN connectSSE([h EXCEPT !.lastDepartmentId = dept, !.lastDoctorId = doc, !.hasBothIds = TRUE], dept, doc) ELSE IF ~(~Falsy(dept) /\ ~Falsy(doc)) /\ h.hasBothIds THEN [h EXCEPT !.hasBothIds = FALSE] ELSE h

\* the body of the main effect for the props (dept, doc)
mainEffect(h, dept, doc) == IF (~Falsy(dept) /\ ~Falsy(doc)) /\ (dept # h.lastDepartmentId \/ doc # h.lastDoctorId \/ ~h.hasBothIds) THEN connectSSE([h EXCEPT !.lastDepartmentId = dept, !.lastDoctorId = doc, !.hasBothIds = TRUE], dept, doc) ELSE IF ~(~Falsy(dept) /\ ~Falsy(doc)) /\ h.hasBothIds THEN cleanup([h EXCEPT !.hasBothIds = FALSE]) ELSE h

SetHook(h) ==
    /\ sources' = h.sources
    /\ eventSource' = h.eventSource
    /\ reconnectAttempts' = h.reconnectAttempts
    /\ reconnectTimer' = h.reconnectTimer
    /\ lastDepartmentId' = h.lastDepartmentId
    /\ lastDoctorId' = h.lastDoctorId
    /\ hasBothIds' = h.hasBothIds

HookInit ==
    /\ sources = <<>>
    /\ eventSource = NoSource
    /\ reconnectAttempts = 0
    /\ reconnectTimer = NoTimer
    /\ lastDepartmentId = Null
    /\ lastDoctorId = Null
    /\ hasBothIds = FALSE
    /\ notified = "none"
    /\ failures = 0
    /\ mounted = TRUE

\* the department drop-down changes the props of the hook
HookSelectDepartment(v) ==
    /\ mounted
    /\ mounted' = mounted
    /\ v # selectedDepartmentId
    /\ Len(mainEffect(effectCleanup(hook), v, "").sources) <= MaxSources
    /\ selectedDepartmentId' = v
    /\ selectedDoctorId' = ""
    /\ SetHook(mainEffect(effectCleanup(hook), v, ""))
    /\ failures' = 0
    /\ UNCHANGED <<queues, lastEvent, isUpdating, connectionError, command, fetches, isInitialConnect, notified, priorityVars, apiVars, displayVars>>

\* the doctor drop-down changes the props of the hook
HookSelectDoctor(v) ==
    /\ mounted
    /\ mounted' = mounted
    /\ v \in filteredDoctors \cup {""}
    /\ v # (IF Falsy(selectedDoctorId) THEN "" ELSE selectedDoctorId)
    /\ Len(mainEffect(effectCleanup(hook), selectedDepartmentId, v).sources) <= MaxSources
    /\ selectedDoctorId' = v
    /\ SetHook(mainEffect(effectCleanup(hook), selectedDepartmentId, v))
    /\ failures' = 0
    /\ UNCHANGED <<queues, lastEvent, selectedDepartmentId, isUpdating, connectionError, command, fetches, isInitialConnect, notified, priorityVars, apiVars, displayVars>>

\* the component unmounts: React runs the cleanup the main effect returned
Unmount ==
    /\ mounted
    /\ mounted' = FALSE
    /\ SetHook(effectCleanup(hook))
    /\ UNCHANGED <<pageVars, notified, failures, priorityVars, apiVars, displayVars>>

\* source.onopen
SourceOpen(i) ==
    /\ mounted' = mounted
    /\ i \in 1..Len(sources)
    /\ sources[i].readyState = "CONNECTING"
    /\ sources' = [sources EXCEPT ![i].readyState = "OPEN"]
    /\ reconnectAttempts' = 0
    /\ notified' = IF isInitialConnect THEN "onOpen" ELSE "onReconnect"
    /\ isInitialConnect' = FALSE
    /\ failures' = 0
    /\ UNCHANGED <<queues, lastEvent, selectedDepartmentId, selectedDoctorId, isUpdating, connectionError, command, fetches, eventSource, reconnectTimer, lastDepartmentId, lastDoctorId, hasBothIds, priorityVars, apiVars, displayVars>>

\* source.onerror: the source closes itself and schedules connectSSE
SourceError(i) ==
    /\ mounted' = mounted
    /\ i \in LiveSources(sources)
    /\ notified' = "onError"
    /\ sources' = [sources EXCEPT ![i].readyState = "CLOSED"]
    /\ failures' = failures + 1
    /\ IF reconnectOnClose /\ reconnectAttempts < MaxReconnectAttempts THEN reconnectAttempts' = reconnectAttempts + 1 /\ reconnectTimer' = [pending |-> TRUE, departmentId |-> sources[i].departmentId, doctorId |-> sources[i].doctorId, baseDelay |-> BaseDelay(reconnectAttempts)] ELSE UNCHANGED <<reconnectAttempts, reconnectTimer>>
    /\ UNCHANGED <<pageVars, eventSource, lastDepartmentId, lastDoctorId, hasBothIds, priorityVars, apiVars, displayVars>>

\* the reconnect timeout fires
ReconnectTimerFires ==
    /\ mounted' = mounted
    /\ reconnectTimer.pending
    /\ Len(sources) < MaxSources
    /\ SetHook(connectSSE(hook, reconnectTimer.departmentId, reconnectTimer.doctorId))
    /\ UNCHANGED <<pageVars, notified, failures, priorityVars, apiVars, displayVars>>

\* source.onopen with the callbacks the page passes: onOpen is handleOpen,
\* onReconnect is not passed, so `onReconnectRef.current?.()` calls nothing
SourceOpenPage(i) ==
    /\ mounted' = mounted
    /\ i \in 1..Len(sources)
    /\ sources[i].readyState = "CONNECTING"
    /\ isInitialConnect => FetchRoom(selectedDepartmentId, selectedDoctorId, "open")
    /\ sources' = [sources EXCEPT ![i].readyState = "OPEN"]
    /\ reconnectAttempts' = 0
    /\ notified' = IF isInitialConnect THEN "onOpen" ELSE "onReconnect"
    /\ isInitialConnect' = FALSE
    /\ failures' = 0
    /\ IF isInitialConnect
          THEN /\ connectionError' = FALSE
               /\ fetches' = FetchIssued(fetches, selectedDepartmentId, selectedDoctorId, "open")
          ELSE UNCHANGED <<connectionError, fetches>>
    /\ lastEvent' = NoEvent
    /\ UNCHANGED <<queues, selectedDepartmentId, selectedDoctorId, isUpdating, command, eventSource, reconnectTimer, lastDepartmentId, lastDoctorId, hasBothIds, priorityVars, apiVars, displayVars>>

\* source.onerror with the page's onError, handleError
SourceErrorPage(i) ==
    /\ mounted' = mounted
    /\ i \in LiveSources(sources)
    /\ notified' = "onError"
    /\ connectionError' = TRUE
    /\ sources' = [sources EXCEPT ![i].readyState = "CLOSED"]
    /\ failures' = failures + 1
    /\ IF reconnectOnClose /\ reconnectAttempts < MaxReconnectAttempts THEN reconnectAttempts' = reconnectAttempts + 1 /\ reconnectTimer' = [pending |-> TRUE, departmentId |-> sources[i].departmentId, doctorId |-> sources[i].doctorId, baseDelay |-> BaseDelay(reconnectAttempts)] ELSE UNCHANGED <<reconnectAttempts, reconnectTimer>>
    /\ lastEvent' = NoEvent
    /\ UNCHANGED <<queues, selectedDepartmentId, selectedDoctorId, isUpdating, command, fetches, isInitialConnect, eventSource, lastDepartmentId, lastDoctorId, hasBothIds, priorityVars, apiVars, displayVars>>

\* what a body that is valid JSON but no queue update decodes to
EmptyData == [doctorId |-> "", departmentId |-> "", queue |-> <<>>, totalPatients |-> 0, timestamp |-> 0]

\* the payloads the push channel of the message specification carries
MessagePayloads == {p \in EnginePayloads["d1"] : Len(p.queue) <= 1}

\* event.data of a queue_update event: the text of a payload, or text that
\* is not JSON
MessageBodies == {[wellFormed |-> TRUE, data |-> p] : p \in MessagePayloads \cup {EmptyData}} \cup {[wellFormed |-> FALSE, data |-> EmptyData]}

\* a variant of the parser that makes a payload of any text
JSONParseLenient(body) == [threw |-> FALSE, data |-> IF body.wellFormed THEN body.data ELSE CHOOSE p \in MessagePayloads : p.queue # <<>> /\ p.timestamp = 0 /\ p.queue[1].tokenId = "t1" /\ p.queue[1].status = "CHECKED_IN"]

\* JSON.parse(event.data) inside the try block of the event handler
JSONParse(body) == IF body.wellFormed THEN [threw |-> FALSE, data |-> body.data] ELSE [threw |-> TRUE, data |-> EmptyData]

\* the handler the hook registers for queue_update, on source i: a body that
\* does not parse is caught and logged, a payload without doctorId is
\* refused by handleQueueUpdate, any other payload is applied
SourceMessage(i, body) ==
    /\ i \in 1..Len(sources)
    /\ sources[i].readyState = "OPEN"
    /\ JSONParse(body).threw \/ Falsy(JSONParse(body).data.doctorId) \/ JSONParse(body).data.doctorId = sources[i].doctorId
    /\ IF JSONParse(body).threw \/ Falsy(JSONParse(body).data.doctorId)
          THEN /\ UNCHANGED <<queues, connectionError>>
               /\ lastEvent' = [NoEvent EXCEPT !.kind = "dropped", !.origin = IF body.wellFormed THEN "push" ELSE "malformed"]
          ELSE /\ queues' = updateDoctorQueueUpdate(queues, JSONParse(body).data)
               /\ connectionError' = FALSE
               /\ lastEvent' = [kind |-> "queue_update", origin |-> IF body.wellFormed THEN "push" ELSE "malformed", doctorId |-> JSONParse(body).data.doctorId, fresh |-> JSONParse(body).data.timestamp >= ExistingState(queues, JSONParse(body).data.doctorId).timestamp, waiting |-> CheckedInOf(JSONParse(body).data.queue), active |-> FirstWith(JSONParse(body).data.queue, "IN_PROGRESS"), snapshot |-> <<>>]
    /\ UNCHANGED <<selectedDepartmentId, selectedDoctorId, isUpdating, command, fetches, isInitialConnect, priorityVars, apiVars, displayVars, hookVars>>

(***************************************************************************)
(* api() of lib/api.ts: a Response is its status and the JSON of its body, *)
(* an envelope whose fields may be missing (Null) or empty.                *)
(***************************************************************************)
ApiStatuses == {199, 200, 201, 299, 300, 404, 500}

ApiResponses == [status : ApiStatuses, json : [error : {Null, "", "token not found"}, message : {Null, "", "Not Found"}, data : {Null, "queue"}]]

NoResponse == [status |-> 0, json |-> [error |-> Null, message |-> Null, data |-> Null]]

NoResult == [called |-> FALSE, threw |-> FALSE, text |-> "", data |-> Null]

\* res.ok
ResOk(res) == res.status >= 200 /\ res.status <= 299

\* a variant of api that returns json.data whatever the status
apiIgnoresStatus(res) == [called |-> TRUE, threw |-> FALSE, text |-> "", data |-> res.json.data]

\* api: throw new Error(json.error || json.message || "API error") unless
\* res.ok, else return json.data
api(res) == IF ~ResOk(res) THEN [called |-> TRUE, threw |-> TRUE, text |-> IF ~Falsy(res.json.error) THEN res.json.error ELSE IF ~Falsy(res.json.message) THEN res.json.message ELSE "API error", data |-> Null] ELSE [called |-> TRUE, threw |-> FALSE, text |-> "", data |-> res.json.data]

ApiInit ==
    /\ apiResponse = NoResponse
    /\ apiResult = NoResult

\* fetch has resolved with apiResponse and api() runs to its end
ApiCall ==
    /\ ~apiResult.called
    /\ apiResponse \in ApiResponses
    /\ apiResult' = api(apiResponse)
    /\ UNCHANGED <<apiResponse, pageVars, priorityVars, displayVars, hookVars>>

(***************************************************************************)
(* Specifications.                                                         *)
(***************************************************************************)
Init == PageInit /\ PriorityInit /\ DisplayInit /\ HookInit /\ ApiInit

\* The engine specification: the user picks department A and doctor d1,
\* whose queue holds up to two tokens; the push channel delivers queue
\* updates and the commands race with them and with the fetches.
EngineDepartments == {"A"}

EngineDoctors == {"d1"}

PageNext ==
    \/ \E v \in EngineDepartments : SelectDepartment(v)
    \/ \E v \in EngineDoctors : SelectDoctor(v)
    \/ \E data \in EnginePayloads["d1"] : HandleQueueUpdate(data)
    \/ HandleOpen
    \/ CallNextToken
    \/ CompleteCurrentToken
    \/ CommandSucceeded
    \/ CommandFailed
    \/ \E f \in fetches : \E resp \in EngineResponses[Query(f)] : FetchSucceeded(f, resp)
    \/ \E f \in fetches : FetchFailed(f)

Spec == Init /\ [][PageNext]_vars

\* The engine under fair settling: a status-update request and a GET /queue
\* in flight are eventually answered, by a response or by a failure; the
\* user and the push channel may stay silent.
RevertSpec == Init /\ [][PageNext]_vars /\ WF_vars(CommandSucceeded \/ CommandFailed) /\ WF_vars(\E f \in fetches : FetchFailed(f) \/ \E resp \in EngineResponses[Query(f)] : FetchSucceeded(f, resp))

\* The selection specification: both doctors, one patient each, and every
\* choice of the two drop-downs.
SelectionNext ==
    \/ \E v \in Departments \cup {"all"} : SelectDepartment(v)
    \/ \E v \in Doctors \cup {""} : SelectDoctor(v)
    \/ \E d \in Doctors : \E data \in SelectionPayloads[d] : HandleQueueUpdate(data)
    \/ HandleOpen
    \/ \E f \in fetches : \E resp \in SelectionResponses[Query(f)] : FetchSucceeded(f, resp)
    \/ \E f \in fetches : FetchFailed(f)

SelectionSpec == Init /\ [][SelectionNext]_vars

\* The banner specification: transport errors raise the connection-error
\* banner, whose retry button fetches.
BannerNext ==
    \/ \E v \in EngineDepartments : SelectDepartment(v)
    \/ \E v \in EngineDoctors : SelectDoctor(v)
    \/ \E data \in EnginePayloads["d1"] : HandleQueueUpdate(data)
    \/ HandleOpen
    \/ HandleError
    \/ RetryClick
    \/ \E f \in fetches : \E resp \in EngineResponses[Query(f)] : FetchSucceeded(f, resp)
    \/ \E f \in fetches : FetchFailed(f)

BannerSpec == Init /\ [][BannerNext]_vars

\* The priority specification: doctor d1's waiting list at every priority.
PriorityNext ==
    \/ \E v \in EngineDepartments : SelectDepartment(v)
    \/ \E v \in EngineDoctors : SelectDoctor(v)
    \/ \E data \in PriorityPayloads["d1"] : HandleQueueUpdate(data)
    \/ HandleOpen
    \/ \E f \in fetches : \E resp \in PriorityResponses[Query(f)] : FetchSucceeded(f, resp)
    \/ \E f \in fetches : FetchFailed(f)
    \/ \E t \in ButtonTokens : \E action \in PriorityActions : ClickPriority(t, action)
    \/ \E r \in priorityRequests : PrioritySettled(r)

PrioritySpec == Init /\ [][PriorityNext]_vars

\* The specification of the queue component, whose selections start as "".
DisplayStart ==
    /\ queues = <<>>
    /\ selectedDepartmentId = ""
    /\ selectedDoctorId = ""
    /\ isUpdating = FALSE
    /\ connectionError = FALSE
    /\ command = NoCommand
    /\ fetches = {}
    /\ isInitialConnect = TRUE
    /\ lastEvent = NoEvent
    /\ PriorityInit
    /\ DisplayInit
    /\ HookInit
    /\ ApiInit

DisplayNext ==
    \/ \E v \in EngineDepartments : DisplaySelectDepartment(v)
    \/ \E v \in EngineDoctors : DisplaySelectDoctor(v)
    \/ DisplayHandleOpen
    \/ \E data \in EnginePayloads["d1"] : DisplayHandleQueueUpdate(data)
    \/ \E ev \in TokenCalledEvents : DisplayHandleTokenCalled(ev)
    \/ DisplayCallNextToken
    \/ DisplayCompleteCurrentToken
    \/ CommandSucceeded
    \/ DisplayCommandFailed
    \/ \E f \in fetches : \E resp \in EngineResponses[Query(f)] : DisplayFetchSucceeded(f, resp)
    \/ \E f \in fetches : DisplayFetchFailed(f)

DisplaySpec == DisplayStart /\ [][DisplayNext]_vars

\* The specification of the hook under every choice of the two drop-downs.
HookNext ==
    \/ \E v \in Departments \cup {"all"} : HookSelectDepartment(v)
    \/ \E v \in Doctors \cup {""} : HookSelectDoctor(v)
    \/ \E i \in 1..Len(sources) : SourceOpen(i)
    \/ \E i \in 1..Len(sources) : SourceError(i)
    \/ ReconnectTimerFires

HookSpec == Init /\ [][HookNext]_vars

\* The unmount specification: the hook under every choice of the two
\* drop-downs, unmounted at any moment.
UnmountNext ==
    \/ \E v \in Departments \cup {"all"} : HookSelectDepartment(v)
    \/ \E v \in Doctors \cup {""} : HookSelectDoctor(v)
    \/ \E i \in 1..Len(sources) : SourceOpen(i)
    \/ \E i \in 1..Len(sources) : SourceError(i)
    \/ ReconnectTimerFires
    \/ Unmount

UnmountSpec == Init /\ [][UnmountNext]_vars

\* The message specification: the hook for department A and doctor d1 with
\* the bodies the push channel may deliver to an open source.
MessageNext ==
    \/ \E v \in EngineDepartments : HookSelectDepartment(v)
    \/ \E v \in EngineDoctors \cup {""} : HookSelectDoctor(v)
    \/ \E i \in 1..Len(sources) : SourceOpen(i)
    \/ \E i \in 1..Len(sources) : SourceError(i)
    \/ ReconnectTimerFires
    \/ \E i \in 1..Len(sources) : \E body \in MessageBodies : SourceMessage(i, body)

MessageSpec == Init /\ [][MessageNext]_vars

\* The channel specification: the hook wired to the page as the page wires
\* it, for department A and doctor d1, with the fetches its opens cause.
ChannelNext ==
    \/ \E v \in EngineDepartments : HookSelectDepartment(v)
    \/ \E v \in EngineDoctors \cup {""} : HookSelectDoctor(v)
    \/ \E i \in 1..Len(sources) : SourceOpenPage(i)
    \/ \E i \in 1..Len(sources) : SourceErrorPage(i)
    \/ ReconnectTimerFires
    \/ \E f \in fetches : \E resp \in EngineResponses[Query(f)] : FetchSucceeded(f, resp)
    \/ \E f \in fetches : FetchFailed(f)

ChannelSpec == Init /\ [][ChannelNext]_vars

\* The switching specification: the engine's page with the drop-downs free
\* to leave the pair again while a status-update request is awaited; doctor
\* d1 has one patient.
SwitchPayloads == [d \in Doctors |-> PayloadsOver(d, IF d = "d1" THEN {"t1"} ELSE {}, EngineStatuses)]

SwitchNext ==
    \/ \E v \in EngineDepartments \cup {"all"} : SelectDepartment(v)
    \/ \E v \in EngineDoctors \cup {""} : SelectDoctor(v)
    \/ \E data \in SwitchPayloads["d1"] : HandleQueueUpdate(data)
    \/ HandleOpen
    \/ CallNextToken
    \/ CompleteCurrentToken
    \/ CommandSucceeded
    \/ CommandFailed
    \/ \E f \in fetches : \E resp \in ResponsesOver(SwitchPayloads)[Query(f)] : FetchSucceeded(f, resp)
    \/ \E f \in fetches : FetchFailed(f)

SwitchSpec == Init /\ [][SwitchNext]_vars

\* The view specification: the page shows "all departments" with doctor d1's
\* entry holding any waiting list of up to MaxWaiting patients, or with no
\* entry at all; the drop-downs and the two command buttons act on it.
MaxWaiting == 5

\* the waiting lists of the view specification: distinct tokens, at most
\* MaxWaiting of them
ViewWaitingLists == {[i \in 1..Len(ids) |-> [tokenId |-> ids[i], priority |-> "NORMAL"]] : ids \in DistinctSeqs({<<"t1", "t2", "t3", "t4", "t5", "t6", "t7">>[i] : i \in 1..MaxWaiting})}

ViewStart ==
    /\ queues \in {<<>>} \cup {<<[departmentId |-> "A", doctorId |-> "d1", waiting |-> w, active |-> NoToken, previous |-> NoToken, totalPatients |-> Len(w), timestamp |-> 0]>> : w \in ViewWaitingLists}
    /\ selectedDepartmentId = "all"
    /\ selectedDoctorId = ""
    /\ isUpdating = FALSE
    /\ connectionError = FALSE
    /\ command = NoCommand
    /\ fetches = {}
    /\ isInitialConnect = FALSE
    /\ lastEvent = NoEvent
    /\ PriorityInit
    /\ DisplayInit
    /\ HookInit
    /\ ApiInit

ViewNext ==
    \/ \E v \in EngineDepartments \cup {"all"} : SelectDepartment(v)
    \/ \E v \in Doctors \cup {""} : SelectDoctor(v)
    \/ CallNextToken
    \/ CompleteCurrentToken
    \/ CommandSucceeded

ViewSpec == ViewStart /\ [][ViewNext]_vars

\* The called-token specification: the component subscribed to department A
\* and doctor d1; queue_update and token_called events arrive in any order,
\* and the effect that processes a stored token_called runs when React
\* schedules it, which may be after further events were received.
CalledStart ==
    /\ queues = <<>>
    /\ selectedDepartmentId = "A"
    /\ selectedDoctorId = "d1"
    /\ isUpdating = FALSE
    /\ connectionError = FALSE
    /\ command = NoCommand
    /\ fetches = {}
    /\ isInitialConnect = TRUE
    /\ lastEvent = NoEvent
    /\ PriorityInit
    /\ DisplayInit
    /\ HookInit
    /\ ApiInit

CalledNext ==
    \/ \E data \in EnginePayloads["d1"] : DisplayHandleQueueUpdate(data)
    \/ \E ev \in TokenCalledEvents : DisplayTokenCalledReceived(ev)
    \/ DisplayCalledTokenEffect

CalledSpec == CalledStart /\ [][CalledNext]_vars

\* The specification of api(): any enveloped response, then the call.
ApiStart == PageInit /\ PriorityInit /\ DisplayInit /\ HookInit /\ apiResponse \in ApiResponses /\ apiResult = NoResult

ApiNext == ApiCall

ApiSpec == ApiStart /\ [][ApiNext]_vars

(***************************************************************************)
(* Properties.                                                             *)
(***************************************************************************)
\* the step delivers `data` to handleQueueUpdate; the conjuncts before the
\* last follow from it and are there to be evaluated first
QueueUpdateStep(data) == UNCHANGED <<fetches, command>> /\ HasQueue(queues', data.doctorId) /\ QueueOf(queues', data.doctorId).timestamp = data.timestamp /\ QueueOf(queues', data.doctorId).totalPatients = data.totalPatients /\ HandleQueueUpdate(data)

\* the step applies the response `resp` to the fetch f; the conjuncts before
\* the last follow from it and are there to be evaluated first
SnapshotStep(f, resp) == f \notin fetches' /\ Len(queues') = Len(resp) /\ (resp = <<>> \/ (queues'[1].timestamp = resp[1].timestamp /\ queues'[1].totalPatients = resp[1].totalPatients)) /\ FetchSucceeded(f, resp)

\* C1: in every reachable state of the queue map, no doctor's active token
\* is also in that doctor's waiting list, and each doctor has one entry and
\* so at most one active token.
C1_ActiveNotInWaiting == \A i \in 1..Len(queues) : (queues[i].active # NoToken => ~HasToken(queues[i].waiting, queues[i].active.tokenId)) /\ (\A j \in 1..Len(queues) : queues[j].doctorId = queues[i].doctorId => j = i)

\* C2: a queue update whose timestamp is strictly older than the timestamp
\* stored for its doctor changes nothing in the queue map.
C2_OlderUpdateIsNoOp == [][\A data \in EnginePayloads["d1"] : (data.timestamp < ExistingState(queues, data.doctorId).timestamp /\ QueueUpdateStep(data)) => queues' = queues]_vars

\* C3: no step moves the timestamp stored for a doctor to an earlier value.
C3_TimestampNeverDecreases == [][\A d \in Doctors : (HasQueue(queues, d) /\ HasQueue(queues', d)) => QueueOf(queues', d).timestamp >= QueueOf(queues, d).timestamp]_vars

\* C4: a queue update whose timestamp is not older than the stored one leaves
\* the doctor's waiting list equal to the waiting list the update carries, in
\* the same order, whatever the state before; so after any sequence of such
\* updates the list is that of the last update and earlier updates leave no
\* trace in it.
C4_LastWriteWins == (lastEvent.kind = "queue_update" /\ lastEvent.fresh) => (HasQueue(queues, lastEvent.doctorId) /\ QueueOf(queues, lastEvent.doctorId).waiting = lastEvent.waiting)

\* the last step applied an update, not older than the stored state, that
\* put t2 ahead of t1 at the latest timestamp while a token is being served
C4_Witness == lastEvent.kind = "queue_update" /\ lastEvent.fresh /\ HasQueue(queues, "d1") /\ QueueOf(queues, "d1").timestamp = MaxTime /\ Len(QueueOf(queues, "d1").waiting) = 2 /\ QueueOf(queues, "d1").waiting[1].tokenId = "t2" /\ QueueOf(queues, "d1").active # NoToken

\* C5: applying the same token_called event twice in a row leaves the state
\* the first application left: waiting queues and active tokens of the second
\* application equal those of the first.
C5_TokenCalledIdempotent == \A ev \in TokenCalledEvents : ProcessCalledToken(ProcessCalledToken(waitingQueues, activeTokens, ev).waitingQueues, ProcessCalledToken(waitingQueues, activeTokens, ev).activeTokens, ev) = ProcessCalledToken(waitingQueues, activeTokens, ev)

\* a token is being served and a token_called event for a waiting token would
\* move it
C5_Witness == \E ev \in TokenCalledEvents : activeTokens[ActiveKey(ev.departmentId, ev.doctorId)].current # NoToken /\ ProcessCalledToken(waitingQueues, activeTokens, ev).activeTokens # activeTokens

\* C6: while the token an optimistic call-next made current is still current,
\* a token_called event for that token changes neither the waiting queues nor
\* the active tokens.
C6_CalledAfterOptimisticIsNoOp == [][\A ev \in TokenCalledEvents : (DisplayHandleTokenCalled(ev) /\ command.kind = "IN_PROGRESS" /\ command.tokenId = ev.tokenId /\ activeTokens[ActiveKey(ev.departmentId, ev.doctorId)].current.tokenId = ev.tokenId) => UNCHANGED <<waitingQueues, activeTokens>>]_vars

\* C7: a failed call-next request always puts the GET /queue of a forced
\* re-fetch in flight, and when the response to it is applied the queue map
\* is exactly the fresh states of the payloads of the response: nothing of
\* the optimistic waiting, active or previous stays.
C7_RevertIsSnapshot == ((lastEvent.kind = "request_failed" /\ lastEvent.origin = "IN_PROGRESS") => \E f \in fetches : f.origin = "IN_PROGRESS") /\ ((lastEvent.kind = "snapshot" /\ lastEvent.origin = "IN_PROGRESS") => queues = lastEvent.snapshot)

\* the last step applied the response to the corrective re-fetch of a failed
\* call-next: both tokens are back in the waiting list and nothing is active
C7_Witness == lastEvent.kind = "snapshot" /\ lastEvent.origin = "IN_PROGRESS" /\ HasQueue(queues, "d1") /\ Len(QueueOf(queues, "d1").waiting) = 2 /\ QueueOf(queues, "d1").active = NoToken

C9_StaleFetchDiscarded == [][\A f \in fetches : (f.doctorId \in Doctors /\ selectedDoctorId \in Doctors /\ f.doctorId # selectedDoctorId) => \A resp \in SelectionResponses[Query(f)] : SnapshotStep(f, resp) => queues' = queues]_vars

\* C10: after every step at most one EventSource is live, and a step that
\* creates an EventSource leaves every earlier one closed.
C10_OneLiveSource == [][Cardinality(LiveSources(sources')) <= 1 /\ (Len(sources') > Len(sources) => \A i \in 1..Len(sources) : sources'[i].readyState = "CLOSED")]_vars

\* a later EventSource is open after an earlier one for another doctor
C10_Witness == Len(sources) >= 2 /\ sources[Len(sources)].readyState = "OPEN" /\ sources[1].readyState = "CLOSED" /\ sources[1].doctorId # sources[Len(sources)].doctorId


\* C11: every live EventSource was opened for a department and a doctor, and
\* they are the selected ones; a reconnect is pending only for such a pair.
\* So while either id is missing nothing is live and nothing reconnects.
C11_SubscriptionNeedsBothIds == (\A i \in LiveSources(sources) : ~Falsy(sources[i].departmentId) /\ ~Falsy(sources[i].doctorId) /\ sources[i].departmentId = selectedDepartmentId /\ sources[i].doctorId = selectedDoctorId) /\ (reconnectTimer.pending => (~Falsy(reconnectTimer.departmentId) /\ ~Falsy(reconnectTimer.doctorId) /\ reconnectTimer.departmentId = selectedDepartmentId /\ reconnectTimer.doctorId = selectedDoctorId))

\* the doctor was deselected while a source was live, which closed it, and a
\* later source is live for the pair selected now
C11_Witness == \E i \in LiveSources(sources) : i >= 2 /\ sources[i - 1].readyState = "CLOSED" /\ sources[i - 1].doctorId = sources[i].doctorId /\ failures = 0 /\ ~reconnectTimer.pending

\* C12: once five errors in a row have hit the subscribed pair with no open
\* in between, no reconnect is scheduled.
C12_FailedAfterFiveFailures == failures >= MaxReconnectAttempts => ~reconnectTimer.pending

\* C13: the reconnect scheduled by the k-th error in a row (counting from 0)
\* has base delay min(1000 * 2^k, 10000).
C13_BackoffDoubles == reconnectTimer.pending => reconnectTimer.baseDelay = BaseDelay(failures - 1)

\* C14: an open that follows at least one error of the same pair invokes
\* onReconnect, not onOpen.
C14_OpenAfterErrorIsReconnect == [][((\E i \in 1..Len(sources) : sources[i].readyState = "CONNECTING" /\ sources'[i].readyState = "OPEN") /\ failures > 0) => notified' = "onReconnect"]_vars


\* C15: when the response to a GET /queue has been applied, every doctor of
\* the response has exactly the state its payload stands for: the payload's
\* CHECKED_IN tokens as waiting, its IN_PROGRESS and COMPLETED tokens as
\* active and previous, and nothing of the state held before.
C15_SnapshotReplaces == lastEvent.kind = "snapshot" => \A k \in 1..Len(lastEvent.snapshot) : HasQueue(queues, lastEvent.snapshot[k].doctorId) /\ QueueOf(queues, lastEvent.snapshot[k].doctorId) = lastEvent.snapshot[k]

\* the response to the re-fetch of a failed complete-current was applied: the
\* token is served again and the optimistic previous is gone
C15_Witness == lastEvent.kind = "snapshot" /\ lastEvent.origin = "COMPLETED" /\ HasQueue(queues, "d1") /\ QueueOf(queues, "d1").active # NoToken /\ QueueOf(queues, "d1").previous = NoToken /\ QueueOf(queues, "d1").waiting # <<>>

\* C16: a queue update without an IN_PROGRESS token leaves the doctor's
\* active token as it was, one with an IN_PROGRESS token makes that token
\* active, and neither changes the doctor's previous token.
C16_UpdateKeepsActiveAndPrevious == [][lastEvent'.kind = "queue_update" => (HasQueue(queues', lastEvent'.doctorId) /\ QueueOf(queues', lastEvent'.doctorId).previous = ExistingState(queues, lastEvent'.doctorId).previous /\ QueueOf(queues', lastEvent'.doctorId).active = (IF lastEvent'.active = NoToken THEN ExistingState(queues, lastEvent'.doctorId).active ELSE lastEvent'.active))]_vars

\* an update without an IN_PROGRESS token was applied while a token was
\* served and another was the previous one
C16_Witness == lastEvent.kind = "queue_update" /\ lastEvent.active = NoToken /\ HasQueue(queues, "d1") /\ QueueOf(queues, "d1").active # NoToken /\ QueueOf(queues, "d1").previous # NoToken


\* C17: a step that sends a call-next request starts with a next token in the
\* displayed waiting list, which it calls, and with no command in flight; and
\* while a command is in flight the buttons are held disabled by isUpdating.
\* So a call-next is never sent on an empty list or on top of another.
C17_CallNextNeedsTokenAndIdle == [][(command' # NoCommand => isUpdating') /\ ((command' # command /\ command'.kind = "IN_PROGRESS") => (command = NoCommand /\ ~isUpdating /\ nextToken # NoToken /\ command'.tokenId = nextToken.tokenId /\ queues' # queues)) /\ ((nextToken = NoToken \/ command # NoCommand) => (command' = command \/ command' = NoCommand \/ command'.kind # "IN_PROGRESS"))]_vars

\* a call-next is in flight while another token waits behind it
C17_Witness == command.kind = "IN_PROGRESS" /\ isUpdating /\ nextToken # NoToken /\ nextToken.tokenId # command.tokenId /\ currentToken # NoToken

\* C18: when a status-update request has just failed, an error is shown to
\* the user and a corrective GET /queue is in flight.
C18_FailureSurfacesError == lastEvent.kind = "request_failed" => (connectionError /\ \E f \in fetches : f.origin = lastEvent.origin)


\* C19: after a status-update request has failed, server state eventually
\* reaches the queue map: a GET /queue response or a queue update is applied.
C19_FailureEventuallyCorrected == (lastEvent.kind = "request_failed") ~> (lastEvent.kind \in {"snapshot", "queue_update"})


\* C20: delivering a body that is not JSON changes neither the queue map nor
\* the error banner, and leaves the source open, the reconnect counter and
\* timer as they were and no callback invoked.
C20_MalformedMessageDropped == [][(lastEvent' # lastEvent /\ lastEvent'.origin = "malformed") => (lastEvent'.kind = "dropped" /\ UNCHANGED <<queues, connectionError, sources, eventSource, reconnectAttempts, reconnectTimer, notified>>)]_vars

\* a body that is not JSON was delivered to the open source of a reconnect
\* while d1's queue was held
C20_Witness == lastEvent.kind = "dropped" /\ lastEvent.origin = "malformed" /\ HasQueue(queues, "d1") /\ QueueOf(queues, "d1").waiting # <<>> /\ eventSource >= 2 /\ sources[eventSource].readyState = "OPEN"


\* C21: a step that changes the selected department or doctor leaves every
\* EventSource that existed before it closed and no reconnect pending, and an
\* EventSource created by any step is addressed to the pair selected after
\* that step; so nothing is ever live for, or reconnects to, a pair selected
\* earlier.
C21_PairChangeTearsDown == [][((selectedDepartmentId' # selectedDepartmentId \/ selectedDoctorId' # selectedDoctorId) => ((\A i \in 1..Len(sources) : sources'[i].readyState = "CLOSED") /\ ~reconnectTimer'.pending)) /\ (\A i \in 1..Len(sources') : i > Len(sources) => (sources'[i].departmentId = selectedDepartmentId' /\ sources'[i].doctorId = selectedDoctorId'))]_vars

\* the source of one doctor failed and its reconnect was pending when another
\* doctor was selected: the timer is gone and the new source is the only one
\* not closed
C21_Witness == notified = "onError" /\ Len(sources) = 2 /\ sources[1].readyState = "CLOSED" /\ sources[2].readyState = "CONNECTING" /\ sources[1].doctorId # sources[2].doctorId /\ sources[2].doctorId = selectedDoctorId /\ ~reconnectTimer.pending

\* C30: right after the n-th error in a row (n up to 5) the reconnect counter
\* is n.
C30_CounterCountsFailures == (reconnectTimer.pending /\ failures >= 1 /\ failures <= MaxReconnectAttempts) => reconnectAttempts = failures


\* C22: when an EventSource opens after an error of the pair, a GET /queue
\* for the current selection is in flight after the step.
C22_ReopenRefetches == [][((\E i \in 1..Len(sources) : sources[i].readyState = "CONNECTING" /\ sources'[i].readyState = "OPEN") /\ connectionError /\ failures > 0) => \E f \in fetches' : f.departmentId = selectedDepartmentId /\ f.doctorId = selectedDoctorId]_vars


C24_ApiEnvelope == apiResult.called => ((apiResponse.status \in 200..299 => (~apiResult.threw /\ apiResult.data = apiResponse.json.data)) /\ (apiResponse.status \notin 200..299 => (apiResult.threw /\ apiResult.data = Null /\ apiResult.text = (CASE apiResponse.json.error \notin {Null, ""} -> apiResponse.json.error [] apiResponse.json.error \in {Null, ""} /\ apiResponse.json.message \notin {Null, ""} -> apiResponse.json.message [] OTHER -> "API error"))))

\* a 404 whose body has an empty `error` and a `message`, and carries data:
\* api() threw the message and returned nothing
C24_Witness == apiResult.called /\ apiResponse.status = 404 /\ apiResponse.json.error = "" /\ apiResponse.json.data = "queue" /\ apiResult.threw /\ apiResult.text = "Not Found"


\* C25: a step that sends a call-next request is sent for the displayed
\* doctor, whose waiting list had a head h; after it the doctor's waiting
\* list is the old one without h, in the old order, h is active, the old
\* active token is previous, and the request names h with IN_PROGRESS.
C25_CallNextTransition == [][(command' # command /\ command'.kind = "IN_PROGRESS") => (command'.doctorId = currentDisplayDoctor /\ HasQueue(queues, command'.doctorId) /\ QueueOf(queues, command'.doctorId).waiting # <<>> /\ QueueOf(queues', command'.doctorId).waiting = Tail(QueueOf(queues, command'.doctorId).waiting) /\ QueueOf(queues', command'.doctorId).active = Head(QueueOf(queues, command'.doctorId).waiting) /\ QueueOf(queues', command'.doctorId).previous = QueueOf(queues, command'.doctorId).active /\ command'.tokenId = Head(QueueOf(queues, command'.doctorId).waiting).tokenId)]_vars

\* a call-next was sent while another token was served: the called token is
\* active, the one served before is previous and nobody waits
C25_Witness == command.kind = "IN_PROGRESS" /\ HasQueue(queues, command.doctorId) /\ QueueOf(queues, command.doctorId).active.tokenId = command.tokenId /\ QueueOf(queues, command.doctorId).previous # NoToken /\ QueueOf(queues, command.doctorId).previous # QueueOf(queues, command.doctorId).active /\ QueueOf(queues, command.doctorId).waiting = <<>>

\* C26: a step that sends a complete request is sent for the displayed
\* doctor, who had an active token a; after it the doctor has no active
\* token, a is previous, the waiting list is as before and the request names
\* a with COMPLETED.  Without an active token no such step exists.
C26_CompleteTransition == [][(command' # command /\ command'.kind = "COMPLETED") => (command'.doctorId = currentDisplayDoctor /\ HasQueue(queues, command'.doctorId) /\ QueueOf(queues, command'.doctorId).active # NoToken /\ currentToken # NoToken /\ QueueOf(queues', command'.doctorId).active = NoToken /\ QueueOf(queues', command'.doctorId).previous = QueueOf(queues, command'.doctorId).active /\ QueueOf(queues', command'.doctorId).waiting = QueueOf(queues, command'.doctorId).waiting /\ command'.tokenId = QueueOf(queues, command'.doctorId).active.tokenId)]_vars

\* a complete was sent: nothing is active, the completed token is previous
\* and a token still waits
C26_Witness == command.kind = "COMPLETED" /\ HasQueue(queues, command.doctorId) /\ QueueOf(queues, command.doctorId).active = NoToken /\ QueueOf(queues, command.doctorId).previous # NoToken /\ QueueOf(queues, command.doctorId).previous.tokenId = command.tokenId /\ QueueOf(queues, command.doctorId).waiting # <<>>


\* C27: for a token_called event naming token x of a doctor: when x is in
\* the doctor's stored queue, the effect removes x from it keeping the order
\* of the rest, makes the current token the previous one and x the current
\* one, and touches no other queue or doctor; when x is not there, or the
\* doctor has no stored queue, nothing changes.
C27_TokenCalledTransition == \A ev \in TokenCalledEvents : IF QueueIndex(waitingQueues, ev.departmentId, ev.doctorId) # NoIndex /\ (\E k \in 1..Len(waitingQueues[QueueIndex(waitingQueues, ev.departmentId, ev.doctorId)].queue) : waitingQueues[QueueIndex(waitingQueues, ev.departmentId, ev.doctorId)].queue[k].tokenId = ev.tokenId) THEN (Len(ProcessCalledToken(waitingQueues, activeTokens, ev).waitingQueues) = Len(waitingQueues) /\ (\A j \in 1..Len(waitingQueues) : ProcessCalledToken(waitingQueues, activeTokens, ev).waitingQueues[j] = (IF j = QueueIndex(waitingQueues, ev.departmentId, ev.doctorId) THEN [waitingQueues[j] EXCEPT !.queue = SelectSeq(waitingQueues[j].queue, LAMBDA t : t.tokenId # ev.tokenId)] ELSE waitingQueues[j])) /\ ProcessCalledToken(waitingQueues, activeTokens, ev).activeTokens[ActiveKey(ev.departmentId, ev.doctorId)].current.tokenId = ev.tokenId /\ ProcessCalledToken(waitingQueues, activeTokens, ev).activeTokens[ActiveKey(ev.departmentId, ev.doctorId)].previous = activeTokens[ActiveKey(ev.departmentId, ev.doctorId)].current /\ (\A key \in ActiveKeys : key # ActiveKey(ev.departmentId, ev.doctorId) => ProcessCalledToken(waitingQueues, activeTokens, ev).activeTokens[key] = activeTokens[key])) ELSE ProcessCalledToken(waitingQueues, activeTokens, ev) = [waitingQueues |-> waitingQueues, activeTokens |-> activeTokens]

\* a token is served, one event names a token of the stored queue and
\* another names a token that is not in it
C27_Witness == (\E ev \in TokenCalledEvents : activeTokens[ActiveKey(ev.departmentId, ev.doctorId)].current # NoToken /\ QueueIndex(waitingQueues, ev.departmentId, ev.doctorId) # NoIndex /\ HasToken(waitingQueues[QueueIndex(waitingQueues, ev.departmentId, ev.doctorId)].queue, ev.tokenId)) /\ (\E ev \in TokenCalledEvents : QueueIndex(waitingQueues, ev.departmentId, ev.doctorId) # NoIndex /\ ~HasToken(waitingQueues[QueueIndex(waitingQueues, ev.departmentId, ev.doctorId)].queue, ev.tokenId))

\* C28: for the head token of the displayed queue, the optimistic call-next
\* and the token_called effect leave the same state: the component's own
\* optimistic writes equal the effect's, and the page's call-next transition
\* applied to the same waiting, active and previous gives the same three.
C28_CallNextEqualsTokenCalled == DisplayNextToken # NoToken => (ProcessCalledToken(waitingQueues, activeTokens, [departmentId |-> waitingQueues[currentDisplayQueueState].departmentId, doctorId |-> waitingQueues[currentDisplayQueueState].doctorId, tokenId |-> DisplayNextToken.tokenId]) = DisplayCallNextState(waitingQueues, activeTokens, currentDisplayQueueState) /\ CallNextState([waiting |-> waitingQueues[currentDisplayQueueState].queue, active |-> activeTokens[activeTokensKey].current, previous |-> activeTokens[activeTokensKey].previous], DisplayNextToken) = [waiting |-> ProcessCalledToken(waitingQueues, activeTokens, [departmentId |-> waitingQueues[currentDisplayQueueState].departmentId, doctorId |-> waitingQueues[currentDisplayQueueState].doctorId, tokenId |-> DisplayNextToken.tokenId]).waitingQueues[currentDisplayQueueState].queue, active |-> ProcessCalledToken(waitingQueues, activeTokens, [departmentId |-> waitingQueues[currentDisplayQueueState].departmentId, doctorId |-> waitingQueues[currentDisplayQueueState].doctorId, tokenId |-> DisplayNextToken.tokenId]).activeTokens[activeTokensKey].current, previous |-> ProcessCalledToken(waitingQueues, activeTokens, [departmentId |-> waitingQueues[currentDisplayQueueState].departmentId, doctorId |-> waitingQueues[currentDisplayQueueState].doctorId, tokenId |-> DisplayNextToken.tokenId]).activeTokens[activeTokensKey].previous])

\* a token is served and two more are in the displayed queue
C28_Witness == DisplayNextToken # NoToken /\ DisplayCurrentToken # NoToken /\ Len(waitingQueues[currentDisplayQueueState].queue) = 2 /\ DisplayCurrentToken.tokenId # DisplayNextToken.tokenId


\* C29: applying a GET /queue response replaces only the state of the
\* doctors contained in the response: every doctor that has a state and is
\* not in the response has the same state afterwards.
C29_SnapshotKeepsOtherDoctors == [][lastEvent'.kind = "snapshot" => \A d \in Doctors : (HasQueue(queues, d) /\ ~(\E k \in 1..Len(lastEvent'.snapshot) : lastEvent'.snapshot[k].doctorId = d)) => (HasQueue(queues', d) /\ QueueOf(queues', d) = QueueOf(queues, d))]_vars


\* C31: the reconnect counter goes back to 0 only in a step that opens an
\* EventSource, delivers a push message, or changes the selected pair; a
\* retry that has not opened yet does not reset it.
C31_CounterResetOnlyByOpenMessageOrSelection == [][(reconnectAttempts # 0 /\ reconnectAttempts' = 0) => ((\E i \in 1..Len(sources) : sources[i].readyState = "CONNECTING" /\ sources'[i].readyState = "OPEN") \/ (lastEvent' # lastEvent /\ lastEvent'.kind = "queue_update") \/ selectedDepartmentId' # selectedDepartmentId \/ selectedDoctorId' # selectedDoctorId)]_vars


\* C32: for every token at most one priority-update request is in flight;
\* the token's in-flight flag is set exactly while its request is pending
\* (so it is cleared when the request settles), and while it is set both
\* priority buttons of the token are disabled, so a further click sends
\* nothing.
C32_OnePriorityRequestPerToken == \A id \in PriorityTokens : Cardinality({r \in priorityRequests : r.tokenId = id}) <= 1 /\ (id \in updatingPriorities <=> \E r \in priorityRequests : r.tokenId = id) /\ ((\E r \in priorityRequests : r.tokenId = id) => \A t \in ButtonTokens : \A action \in PriorityActions : t.tokenId = id => ButtonDisabled(updatingPriorities, t.tokenId, t.priority, action))

\* the request of a HIGH token, whose two buttons are otherwise enabled, is
\* pending while another token on the page has none
C32_Witness == Cardinality(priorityRequests) = 1 /\ (\E r \in priorityRequests : \E t \in ButtonTokens : t.tokenId = r.tokenId /\ t.priority = "HIGH") /\ (\E t \in ButtonTokens : t.tokenId \notin updatingPriorities)


\* C33: when the selection changes while a call-next or complete request for
\* a doctor is still awaited and the doctor's stored state is what the
\* optimistic write left (the called token active and out of waiting, or no
\* active token and the completed token previous), that state is not in the
\* queue map after the change.
C33_SelectionChangeAbandonsOptimistic == [][((selectedDepartmentId' # selectedDepartmentId \/ selectedDoctorId' # selectedDoctorId) /\ command # NoCommand /\ HasQueue(queues, command.doctorId) /\ (IF command.kind = "IN_PROGRESS" THEN QueueOf(queues, command.doctorId).active.tokenId = command.tokenId ELSE QueueOf(queues, command.doctorId).active = NoToken /\ QueueOf(queues, command.doctorId).previous.tokenId = command.tokenId)) => ~(HasQueue(queues', command.doctorId) /\ QueueOf(queues', command.doctorId).waiting = QueueOf(queues, command.doctorId).waiting /\ QueueOf(queues', command.doctorId).active = QueueOf(queues, command.doctorId).active /\ QueueOf(queues', command.doctorId).previous = QueueOf(queues, command.doctorId).previous)]_vars


\* C34: every step that changes the selected department leaves the selected
\* doctor at the empty selection, and after every step a selected doctor is
\* one of the doctors offered under the selected department.
C34_DepartmentChangeResetsDoctor == [][(selectedDepartmentId' # selectedDepartmentId => selectedDoctorId' = "") /\ (~Falsy(selectedDoctorId') => selectedDoctorId' \in filteredDoctors')]_vars

\* a doctor of department B was selected and the department is now A, with
\* no doctor selected
C34_Witness == selectedDepartmentId = "A" /\ selectedDoctorId = "" /\ HasQueue(queues, "d2") /\ lastEvent = NoEvent /\ fetches = {}


\* C35: with a display queue resolved and w its waiting list, nextToken is
\* w[0] or none when w is empty, upcomingTokens is w[1..3] in order (at most
\* three tokens, the head not among them), waitingQueue is w and
\* currentToken and previousToken are the queue's active and previous; with
\* no display queue resolved all are none or empty.
C35_DerivedTokens == IF currentDisplayDoctor = Null THEN (currentToken = NoToken /\ previousToken = NoToken /\ waitingQueue = <<>> /\ nextToken = NoToken /\ upcomingTokens = <<>>) ELSE (waitingQueue = QueueOf(queues, currentDisplayDoctor).waiting /\ nextToken = (IF Len(QueueOf(queues, currentDisplayDoctor).waiting) = 0 THEN NoToken ELSE QueueOf(queues, currentDisplayDoctor).waiting[1]) /\ Len(upcomingTokens) <= 3 /\ Len(upcomingTokens) = (IF Len(QueueOf(queues, currentDisplayDoctor).waiting) = 0 THEN 0 ELSE IF Len(QueueOf(queues, currentDisplayDoctor).waiting) > 4 THEN 3 ELSE Len(QueueOf(queues, currentDisplayDoctor).waiting) - 1) /\ (\A k \in 1..Len(upcomingTokens) : upcomingTokens[k] = QueueOf(queues, currentDisplayDoctor).waiting[k + 1]) /\ currentToken = QueueOf(queues, currentDisplayDoctor).active /\ previousToken = QueueOf(queues, currentDisplayDoctor).previous)

\* doctor d1 is selected and five patients wait: the fifth is not among the
\* upcoming tokens
C35_Witness == Len(waitingQueue) = 5 /\ Len(upcomingTokens) = 3 /\ upcomingTokens[3] = waitingQueue[4] /\ selectedDoctorId = "d1"


\* C36: a queue_update delivered while a GET /queue is in flight is applied
\* in the step that delivers it: after the step the doctor's waiting list is
\* the payload's, the active token is the payload's (or the one kept when the
\* payload serves none), and the fetch is still in flight.
C36_PushAppliedDuringFetch == [][(lastEvent' # lastEvent /\ lastEvent'.kind = "queue_update" /\ fetches # {}) => (fetches' = fetches /\ HasQueue(queues', lastEvent'.doctorId) /\ QueueOf(queues', lastEvent'.doctorId).waiting = lastEvent'.waiting /\ QueueOf(queues', lastEvent'.doctorId).active = (IF lastEvent'.active # NoToken THEN lastEvent'.active ELSE ExistingState(queues, lastEvent'.doctorId).active))]_vars

\* a fetch is in flight and the update just delivered, which lists a waiting
\* patient, is in the doctor's state
C36_Witness == fetches # {} /\ lastEvent.kind = "queue_update" /\ lastEvent.waiting # <<>> /\ HasQueue(queues, lastEvent.doctorId) /\ QueueOf(queues, lastEvent.doctorId).waiting = lastEvent.waiting


\* C37: the pushes for a doctor take effect one by one in the order they
\* were received: whenever no token_called event is waiting for the effect,
\* waitingQueues and activeTokens are what applying every queue_update and
\* token_called at its receipt, in receipt order, gives.
C37_AppliedInReceiptOrder == lastCalledToken = NoCalled => (waitingQueues = inReceiptOrder.waitingQueues /\ activeTokens = inReceiptOrder.activeTokens)


\* C38: a step in which an EventSource opens while the connection-error
\* banner is shown clears the banner.
C38_ReopenClearsBanner == [][((\E i \in 1..Len(sources) : sources[i].readyState = "CONNECTING" /\ sources'[i].readyState = "OPEN") /\ connectionError) => ~connectionError']_vars


\* C39: once the hook is unmounted no EventSource is open or connecting and
\* no reconnect timer is pending.
C39_UnmountReleasesChannel == ~mounted => (LiveSources(sources) = {} /\ ~reconnectTimer.pending)


\* C40: in every doctor's state the previous token and the active token are
\* not the same token.
C40_PreviousIsNotActive == \A i \in 1..Len(queues) : queues[i].active # NoToken => queues[i].previous.tokenId # queues[i].active.tokenId

=============================================================================
